---- MODULE Spec2Model ----
(***************************************************************************)
(* Verification model of the orchestration core of the AI FeatureLab       *)
(* browser client: the retrying request layer (src/api/apiClient.ts), the  *)
(* pipeline coordination done by App.tsx and UIGenerator.tsx, and the      *)
(* history store (HistoryManager).                                         *)
(*                                                                         *)
(* Two specifications share the module:                                    *)
(*   SpecRetry - one call of postJSON / healthCheck / getSamplePrompts     *)
(*               through withRetry, attempt by attempt;                    *)
(*   Spec      - the coordinator: user events, React commits and effects,  *)
(*               the asynchronous pipeline tasks and the timers.           *)
(***************************************************************************)
EXTENDS Integers, Sequences, FiniteSets, TLC

(***************************************************************************)
(* Program constants                                                       *)
(***************************************************************************)
\* RETRY_CONFIG.maxRetries
MaxRetries == 5
\* RETRY_CONFIG.retryDelay, in ms
RetryDelay == 1000

\* the value of a field that is not set (JavaScript undefined)
Absent == "<absent>"

(***************************************************************************)
(* Part 1 - RequestOrchestrator: withRetry and its three operations        *)
(***************************************************************************)
VARIABLES
  rOp,        \* which exported call is being made
  rPc,        \* "call": operation() to be invoked; "fetch": awaiting it;
              \* "wait": inside the retry setTimeout; "done": withRetry returned
  rAttempt,   \* loop variable `attempt`
  rLastError, \* loop variable `lastError` (message of the caught error)
  rResult,    \* the envelope withRetry returned
  rThrown,    \* TRUE iff withRetry rejected instead of returning
  rTrace,     \* outcome of every finished attempt, oldest first
  rFetched,   \* what fetch answered in every finished attempt
  rRetryLogs, \* number of 'API Request Retry' records (willRetry: true)
  rFinalLogs, \* number of 'API Request Failed After Retries' records
  rWaits,     \* retry delays completed
  rElapsed,   \* ms spent in retry delays
  rOpen,      \* operations invoked and not yet settled
  rEvents     \* order of events: "invoke", "settle", "wait"

rvars == <<rOp, rPc, rAttempt, rLastError, rResult, rThrown, rTrace,
           rFetched, rRetryLogs, rFinalLogs, rWaits, rElapsed, rOpen, rEvents>>

\* State of the PipelineCoordinator (App.tsx, UIGenerator.tsx) and of the
\* history store
VARIABLES
  history,        \* HistoryManager: the persisted entries, oldest first
  nextId,         \* creation order of the next entry id
  reader,         \* productAnalysisReader: 0 = nothing loaded (data is
                  \* null), -1 = loadFromObject(undefined) (isLoaded() is
                  \* true, getData() is undefined), else the entry id of
                  \* the run that produced the loaded record
  parser,         \* solutionArchitectResponseParser
  activeTab,      \* App state
  isGenerating,   \* App state (the coordinator's generating indication)
  uiInput,        \* App state
  hasContent,     \* App state
  currentHistoryId,     \* App state, 0 = null
  shouldAutoGenerateUI, \* App state: the one-shot auto-generate signal
  autoTimer,      \* the 500 ms reset timer of the signal is pending
  ug,             \* state of the mounted UIGenerator instance
  restoreTimer,   \* the 100 ms isRestoringFromHistory timer is pending
  restoreFirst,   \* the pending restore timer is due before the auto timer
  tasks,          \* async functions suspended at an await
  nextTask,       \* id of the next task
  failures,       \* every stage failure surfaced so far: entry, stage, error
  lastStart,      \* the UI generation started last, and what was resident
  autoStarts      \* generations started by the auto-generate effect since
                  \* the signal was last set

cvars == <<history, nextId, reader, parser, activeTab, isGenerating, uiInput,
           hasContent, currentHistoryId, shouldAutoGenerateUI, autoTimer, ug,
           restoreTimer, restoreFirst, tasks, nextTask, failures, lastStart,
           autoStarts>>

\* State of HistoryManager taken by itself: the localStorage item the class
\* persists to, and the calls made on the class
VARIABLES
  blob,        \* the item under STORAGE_KEY: its kind, and for a blob the
               \* class wrote its entries (oldest first) and lastUpdated
  now,         \* the clock read by new Date()
  storeNextId, \* creation order of the next entry id
  storeOp      \* the call made last: its arguments, whether its setItem
               \* went through, whether it threw, and what it loaded

svars == <<blob, now, storeNextId, storeOp>>

\* State of CacheManager: the localStorage item it persists to, the clock,
\* and the calls made on the class
VARIABLES
  cache,       \* the item under CACHE_KEY: missing, or a snapshot
  clock,       \* Date.now(), in ms
  cacheCalls,  \* calls made on the class so far
  cacheOp      \* the call made last: its argument, whether its setItem went
               \* through, whether it threw, and the snapshot it returned

kvars == <<cache, clock, cacheCalls, cacheOp>>

\* State of the three response parsers taken by themselves: the record each
\* instance holds, and the call made last on it with what it returned
VARIABLES
  asmt,    \* AssessmentResponseParser: `data`
  asmtOp,  \* the call made last on it
  sa,      \* SolutionArchitectResponseParser: `data` and `isLoadedFlag`
  saOp,    \* the call made last on it
  pa,      \* ProductAnalysisReader: `data`
  paOp     \* the call made last on it

nvars == <<asmt, asmtOp, sa, saOp, pa, paOp>>

vars == <<rvars, cvars, svars, kvars, nvars>>


\* The exported calls that go through withRetry, and "direct": an operation
\* that lets transport and HTTP errors escape and reports only an unreadable
\* body as a failure envelope (withRetry accepts any operation and has a
\* catch branch for the errors it throws).
OpKinds == {"postJSON", "healthCheck", "getSamplePrompts", "direct"}
WrappedOps == {"postJSON", "healthCheck", "getSamplePrompts"}

\* What one fetch can do: reject (transport error), answer non-2xx, answer
\* 2xx with a body that is not JSON, or answer 2xx with a JSON body.
JsonBodies == {"null", "object", "object{success:false}"}
FetchOutcomes ==
  {[kind |-> "reject"], [kind |-> "status", ok |-> FALSE],
   [kind |-> "badjson"]} \cup
  {[kind |-> "json", body |-> b] : b \in JsonBodies}

\* message of the Error thrown for a non-2xx response
HttpErrorMessage(op) ==
  CASE op = "healthCheck" -> "Health check failed: 500"
    [] op = "getSamplePrompts" -> "Sample prompts fetch failed: 500"
    [] OTHER -> "API error: 500 - Internal Server Error"

\* variant: an operation that looks into the body and throws when it carries
\* success: false
OperationTry_InspectsBody(op, out) ==
  CASE out.kind = "reject" -> [kind |-> "throw", msg |-> "Failed to fetch"]
    [] out.kind = "status" -> [kind |-> "throw", msg |-> HttpErrorMessage(op)]
    [] out.kind = "badjson" ->
         [kind |-> "throw", msg |-> "Unexpected token < in JSON"]
    [] out.kind = "json" ->
         IF out.body = "object{success:false}" \/
            (op = "getSamplePrompts" /\ out.body = "null")
           THEN [kind |-> "throw", msg |-> "Request failed"]
           ELSE [kind |-> "return",
                 env |-> [success |-> TRUE, data |-> out.body,
                          error |-> Absent]]

\* The try block of an operation: what it returns or throws for one fetch.
OperationTry(op, out) ==
  CASE out.kind = "reject" -> [kind |-> "throw", msg |-> "Failed to fetch"]
    [] out.kind = "status" -> [kind |-> "throw", msg |-> HttpErrorMessage(op)]
    [] out.kind = "badjson" ->
         [kind |-> "throw", msg |-> "Unexpected token < in JSON"]
    [] out.kind = "json" ->
         IF op = "getSamplePrompts" /\ out.body = "null"
           THEN \* data.total on a null body
                [kind |-> "throw",
                 msg |-> "Cannot read properties of null"]
           ELSE [kind |-> "return",
                 env |-> [success |-> TRUE, data |-> out.body,
                          error |-> Absent]]

\* variant: a catch block that keeps a data field in the failure envelope
Operation_KeepsData(op, out) ==
  LET t == OperationTry(op, out) IN
  IF t.kind = "throw" /\ (op \in WrappedOps \/ out.kind = "badjson")
    THEN [kind |-> "return",
          env |-> [success |-> FALSE, data |-> "null", error |-> t.msg]]
    ELSE t

\* The whole operation: the exported ones catch everything and return a
\* failure envelope.
Operation(op, out) ==
  LET t == OperationTry(op, out) IN
  IF t.kind = "throw" /\ (op \in WrappedOps \/ out.kind = "badjson")
    THEN [kind |-> "return",
          env |-> [success |-> FALSE, data |-> Absent, error |-> t.msg]]
    ELSE t

\* variant: one retry fewer (attempt < maxRetries)
LoopBody_OneRetryLess(attempt, settled) ==
  IF settled.kind = "return"
    THEN IF ~settled.env.success /\ attempt < MaxRetries
           THEN [next |-> "retry"]
           ELSE [next |-> "return", env |-> settled.env]
    ELSE IF attempt < MaxRetries
           THEN [next |-> "retry"]
           ELSE [next |-> "break"]

\* variant: no catch block, a throwing operation rejects withRetry
LoopBody_NoCatch(attempt, settled) ==
  IF settled.kind = "return"
    THEN IF ~settled.env.success /\ attempt <= MaxRetries
           THEN [next |-> "retry"]
           ELSE [next |-> "return", env |-> settled.env]
    ELSE [next |-> "rethrow"]

\* variant: retries whatever the envelope says while attempts remain
LoopBody_RetriesSuccess(attempt, settled) ==
  IF settled.kind = "return"
    THEN IF attempt <= MaxRetries
           THEN [next |-> "retry"]
           ELSE [next |-> "return", env |-> settled.env]
    ELSE IF attempt <= MaxRetries
           THEN [next |-> "retry"]
           ELSE [next |-> "break"]

\* withRetry, one pass of the loop body once `await operation()` has
\* settled: "retry" (log, wait, continue), "return" (return result) or
\* "break" (leave the loop with lastError set).
LoopBody(attempt, settled) ==
  IF settled.kind = "return"
    THEN IF ~settled.env.success /\ attempt <= MaxRetries
           THEN [next |-> "retry"]
           ELSE [next |-> "return", env |-> settled.env]
    ELSE IF attempt <= MaxRetries
           THEN [next |-> "retry"]
           ELSE [next |-> "break"]

\* withRetry, after the loop: the envelope built from lastError
ExhaustedEnvelope(lastError) ==
  [success |-> FALSE, data |-> Absent, error |-> lastError]

\* placeholder for `rResult` while withRetry has not returned
NoEnvelope == [success |-> FALSE, data |-> Absent, error |-> Absent]

RetryInit ==
  /\ rOp \in OpKinds
  /\ rPc = "call"
  /\ rAttempt = 1
  /\ rLastError = Absent
  /\ rResult = NoEnvelope
  /\ rThrown = FALSE
  /\ rTrace = <<>>
  /\ rFetched = <<>>
  /\ rRetryLogs = 0
  /\ rFinalLogs = 0
  /\ rWaits = 0
  /\ rElapsed = 0
  /\ rOpen = 0
  /\ rEvents = <<>>

\* `await operation()`: the operation is invoked and its fetch is issued
InvokeOperation ==
  /\ rPc = "call"
  /\ rAttempt <= MaxRetries + 1
  /\ rPc' = "fetch"
  /\ rOpen' = rOpen + 1
  /\ rEvents' = Append(rEvents, "invoke")
  /\ UNCHANGED <<rOp, rAttempt, rLastError, rResult, rThrown, rTrace,
                 rFetched, rRetryLogs, rFinalLogs, rWaits, rElapsed>>
  /\ UNCHANGED <<cvars, svars, kvars, nvars>>

\* the operation settles and the loop body runs up to its next await,
\* its return, or the code after the loop
SettleAttempt ==
  /\ rPc = "fetch"
  /\ \E out \in FetchOutcomes :
       LET settled == Operation(rOp, out)
           step == LoopBody(rAttempt, settled)
           lastError == IF settled.kind = "throw" THEN settled.msg
                        ELSE rLastError
       IN
       /\ rTrace' = Append(rTrace, settled)
       /\ rFetched' = Append(rFetched, out)
       /\ rOpen' = rOpen - 1
       /\ rEvents' = Append(rEvents, "settle")
       /\ rLastError' = lastError
       /\ CASE step.next = "retry" ->
                 /\ rRetryLogs' = rRetryLogs + 1
                 /\ rPc' = "wait"
                 /\ UNCHANGED <<rResult, rFinalLogs, rThrown>>
            [] step.next = "return" ->
                 /\ rPc' = "done"
                 /\ rResult' = step.env
                 /\ UNCHANGED <<rRetryLogs, rFinalLogs, rThrown>>
            [] step.next = "break" ->
                 /\ rPc' = "done"
                 /\ rResult' = ExhaustedEnvelope(lastError)
                 /\ rFinalLogs' = rFinalLogs + 1
                 /\ UNCHANGED <<rRetryLogs, rThrown>>
            [] OTHER -> \* an error nothing catches rejects the call
                 /\ rPc' = "done"
                 /\ rThrown' = TRUE
                 /\ UNCHANGED <<rResult, rRetryLogs, rFinalLogs>>
  /\ UNCHANGED <<rOp, rAttempt, rWaits, rElapsed>>
  /\ UNCHANGED <<cvars, svars, kvars, nvars>>

\* the retry setTimeout fires; `continue` increments attempt
RetryDelayElapsed ==
  /\ rPc = "wait"
  /\ rPc' = "call"
  /\ rAttempt' = rAttempt + 1
  /\ rWaits' = rWaits + 1
  /\ rElapsed' = rElapsed + RetryDelay
  /\ rEvents' = Append(rEvents, "wait")
  /\ UNCHANGED <<rOp, rLastError, rResult, rThrown, rTrace, rFetched,
                 rRetryLogs, rFinalLogs, rOpen>>
  /\ UNCHANGED <<cvars, svars, kvars, nvars>>

RetryNext == InvokeOperation \/ SettleAttempt \/ RetryDelayElapsed


(***************************************************************************)
(* Part 1 - properties of the request layer (checked under SpecRetry)      *)
(***************************************************************************)
IsFailure(settled) ==
  settled.kind = "throw" \/ ~settled.env.success

FailureMessage(settled) ==
  IF settled.kind = "throw" THEN settled.msg ELSE settled.env.error

AllAttemptsFailed ==
  rPc = "done" /\ \A i \in 1..Len(rTrace) : IsFailure(rTrace[i])

\* invoke, settle, wait, invoke, settle, wait, ... ending with a settle
AlternatingEvents(n) ==
  [i \in 1..(3 * n - 1) |->
     IF i % 3 = 1 THEN "invoke" ELSE IF i % 3 = 2 THEN "settle" ELSE "wait"]

C2_NeverThrowsLastError ==
  /\ ~rThrown
  /\ AllAttemptsFailed =>
       /\ rResult.success = FALSE
       /\ rResult.data = Absent
       /\ rResult.error # Absent
       /\ rResult.error = FailureMessage(rTrace[Len(rTrace)])

C2_Witness ==
  /\ AllAttemptsFailed
  /\ Len(rTrace) = 6
  /\ rTrace[6].kind = "throw"
  /\ FailureMessage(rTrace[5]) # FailureMessage(rTrace[6])

\* C3: if the first k attempts fail and attempt k+1 succeeds, the call
\* returns that attempt's envelope with its data, makes no further attempt,
\* and exactly k retry records were logged.
C3_SuccessAfterKFailures ==
  \A i \in 1..Len(rTrace) :
    ~IsFailure(rTrace[i]) =>
      /\ i = Len(rTrace)
      /\ rPc = "done"
      /\ rOpen = 0
      /\ rResult = rTrace[i].env
      /\ rResult.data # Absent
      /\ rRetryLogs = i - 1
      /\ rFinalLogs = 0

C3_Witness ==
  /\ rPc = "done"
  /\ Len(rTrace) = 4
  /\ ~IsFailure(rTrace[4])
  /\ rRetryLogs = 3

BodySaysFailure(i) ==
  rFetched[i] = [kind |-> "json", body |-> "object{success:false}"]

MaxRuns == 2        \* history entries created (runs started from the input)
MaxTasks == 3       \* asynchronous pipeline functions started
MaxApproaches == 2  \* approaches in a solution_architect answer

\* what the user can type: some text, or nothing (with files attached)
Inputs == {"idea", ""}
\* the prompt handleGenerateUIFromAnalysis builds from the analysis form
AnalysisPrompt == "Generate UI based on this feature analysis"
\* the message of a call that failed all its attempts
CallError == "API error: 500 - Internal Server Error"

NoSolution == [loaded |-> FALSE, origin |-> 0, n |-> 0]
NoUIResults == [content |-> 0, type |-> Absent, prompt |-> Absent]
NoUIState ==
  [activeTab |-> Absent, uiInput |-> Absent, selectedApproach |-> 0,
   generatedContent |-> 0]
NoResults ==
  [analysisData |-> 0, solutionArchitectData |-> 0,
   uiResults |-> NoUIResults, uiState |-> NoUIState]
\* state of a UIGenerator instance right after mounting
FreshUG(initialPrompt) ==
  [prompt |-> initialPrompt, isGen |-> FALSE, content |-> 0,
   restoring |-> FALSE, localMd |-> FALSE]
NoUG == FreshUG("")
NoStart ==
  [by |-> "none", fn |-> "none", readerLoaded |-> FALSE,
   parserLoaded |-> FALSE, approaches |-> 0, approach |-> 0,
   promptBlank |-> FALSE]

(* ---- HistoryManager ---- *)
EntryIndex(hist, id) ==
  IF \E i \in 1..Len(hist) : hist[i].id = id
    THEN CHOOSE i \in 1..Len(hist) : hist[i].id = id
    ELSE 0

MAX_ENTRIES == 100

KeepNewest_KeepsOldest(entries) ==
  IF Len(entries) > MAX_ENTRIES
  THEN SubSeq(entries, 1, MAX_ENTRIES)
  ELSE entries

\* saveHistory keeps the newest MAX_ENTRIES entries
KeepNewest(entries) ==
  IF Len(entries) > MAX_ENTRIES
  THEN SubSeq(entries, Len(entries) - MAX_ENTRIES + 1, Len(entries))
  ELSE entries

NewEntry(id, type, prompt) ==
  [id |-> id, type |-> type, prompt |-> prompt,
   status |-> "pending", error |-> Absent,
   hasResults |-> FALSE, results |-> NoResults]

addEntry_CreatesSuccess(hist, id, type, prompt) ==
  KeepNewest(Append(hist, [NewEntry(id, type, prompt)
                             EXCEPT !.status = "success"]))

addEntry(hist, id, type, prompt) ==
  KeepNewest(Append(hist, NewEntry(id, type, prompt)))

updateEntryStatus_KeepsStatus(hist, id, status, error) ==
  LET i == EntryIndex(hist, id) IN
  IF i = 0 THEN hist
  ELSE [hist EXCEPT ![i].error = IF error # Absent THEN error ELSE @]

updateEntryStatus(hist, id, status, error) ==
  LET i == EntryIndex(hist, id) IN
  IF i = 0 THEN hist
  ELSE KeepNewest([hist EXCEPT
                     ![i].status = status,
                     ![i].error = IF error # Absent THEN error ELSE @])

\* one key of the spread {...existing, ...state}
Supplied(state, existing, k) ==
  IF k \in DOMAIN state THEN state[k] ELSE existing[k]

updateEntryResults_OfFirstEntry(hist, id, partial) ==
  IF EntryIndex(hist, id) = 0 THEN hist
  ELSE KeepNewest(
         [hist EXCEPT
            ![1].hasResults = TRUE,
            ![1].results =
              [analysisData |-> Supplied(partial, @, "analysisData"),
               solutionArchitectData |->
                 Supplied(partial, @, "solutionArchitectData"),
               uiResults |-> Supplied(partial, @, "uiResults"),
               uiState |-> Supplied(partial, @, "uiState")]])

\* `partial` maps the keys that are supplied to their values; the merge is
\* the shallow spread {...entry.results, ...results}
updateEntryResults(hist, id, partial) ==
  LET i == EntryIndex(hist, id) IN
  IF i = 0 THEN hist
  ELSE KeepNewest(
         [hist EXCEPT
            ![i].hasResults = TRUE,
            ![i].results =
              [analysisData |-> Supplied(partial, @, "analysisData"),
               solutionArchitectData |->
                 Supplied(partial, @, "solutionArchitectData"),
               uiResults |-> Supplied(partial, @, "uiResults"),
               uiState |-> Supplied(partial, @, "uiState")]])

EntryUIResults(hist, id) ==
  LET i == EntryIndex(hist, id) IN
  IF i = 0 THEN NoUIResults ELSE hist[i].results.uiResults


(* ---- UIGenerator: effects run after a render ---- *)
\* the props UIGenerator receives from App together with its own state
View(initialPrompt, autoGen, hid, u) ==
  [initialPrompt |-> initialPrompt, autoGenerate |-> autoGen,
   currentHistoryId |-> hid, prompt |-> u.prompt, isGen |-> u.isGen,
   content |-> u.content, restoring |-> u.restoring, localMd |-> u.localMd]

\* dependency lists of the two effects
RestoreDeps(v) == <<v.currentHistoryId, v.content>>
AutoGenerateDeps(v) ==
  <<v.initialPrompt, v.autoGenerate, v.prompt, v.content, v.isGen,
    v.currentHistoryId, v.restoring>>

\* variant: no fallback for a SolutionRecord without approaches
AutoGenerate_NoFallback(v, rd, ps, hist) ==
  LET hasHistoryUIResults ==
        v.currentHistoryId # 0 /\
        EntryUIResults(hist, v.currentHistoryId).content # 0
      shouldAutoGenerate ==
        \/ v.autoGenerate /\ v.content = 0 /\ ~v.isGen
        \/ /\ v.initialPrompt # ""
           /\ v.prompt = v.initialPrompt
           /\ v.content = 0
           /\ ~v.isGen
           /\ v.currentHistoryId = 0
           /\ ~v.restoring
           /\ ~hasHistoryUIResults
  IN
  IF ~shouldAutoGenerate THEN "none"
  ELSE IF rd # 0 /\ ~ps.loaded THEN "generateUIFromAnalysis"
  ELSE IF ps.loaded THEN "generateUIFromSolution"
  ELSE "generateUI"

\* the auto-generate effect: which generation function it calls
\* ("none" when shouldAutoGenerate is false)
AutoGenerate(v, rd, ps, hist) ==
  LET hasHistoryUIResults ==
        v.currentHistoryId # 0 /\
        EntryUIResults(hist, v.currentHistoryId).content # 0
      shouldAutoGenerate ==
        \/ v.autoGenerate /\ v.content = 0 /\ ~v.isGen
        \/ /\ v.initialPrompt # ""
           /\ v.prompt = v.initialPrompt
           /\ v.content = 0
           /\ ~v.isGen
           /\ v.currentHistoryId = 0
           /\ ~v.restoring
           /\ ~hasHistoryUIResults
  IN
  IF ~shouldAutoGenerate THEN "none"
  ELSE IF rd # 0 /\ ~ps.loaded THEN "generateUIFromAnalysis"
  ELSE IF ps.loaded
         THEN IF ps.n > 0 THEN "generateUIFromSolution" ELSE "generateUI"
  ELSE "generateUI"

\* does the generation function reach its first await? (an early return,
\* or a throw before the await, leaves the component state as it was)
Starts(fn, v, rd, ps) ==
  CASE fn = "generateUIFromAnalysis" -> rd > 0
    [] fn = "generateUIFromSolution" -> ps.loaded
    [] fn = "generateUI" -> v.prompt # ""
    [] OTHER -> FALSE

\* the restore effect runs and finds an entry id and no content
RestoreHit(prev, cur, mounted) ==
  /\ mounted \/ RestoreDeps(prev) # RestoreDeps(cur)
  /\ cur.currentHistoryId # 0
  /\ cur.content = 0

\* the state updates of the restore effect; stored is the entry's uiResults
Restore(cur, stored) ==
  [cur EXCEPT
     !.restoring = TRUE,
     !.content = IF stored.content # 0 THEN stored.content ELSE @,
     !.prompt = IF stored.content # 0 /\ stored.type = "prompt-based" /\
                   stored.prompt \notin {Absent, ""}
                  THEN stored.prompt ELSE @]

\* the function the auto-generate effect calls, if the effect runs
AutoCall(prev, cur, mounted, rd, ps, hist) ==
  IF mounted \/ AutoGenerateDeps(prev) # AutoGenerateDeps(cur)
    THEN AutoGenerate(cur, rd, ps, hist)
    ELSE "none"

\* setIsGenerating(true); setGeneratedUIContent(null)
BeginGeneration(v, started) ==
  IF started THEN [v EXCEPT !.isGen = TRUE, !.content = 0] ELSE v

PassResult(cur, restoreHit, stored, fn, started) ==
  [view |-> BeginGeneration(IF restoreHit THEN Restore(cur, stored) ELSE cur,
                            started),
   start |-> IF started THEN fn ELSE "none",
   startView |-> cur,
   armed |-> restoreHit]

StartedPass(cur, restoreHit, stored, fn, rd, ps) ==
  PassResult(cur, restoreHit, stored, fn, Starts(fn, cur, rd, ps))

\* One render followed by the effects whose dependencies changed since the
\* previous render (all of them after mounting). Both effects see the values
\* of this render; their state updates are applied together, in effect order
\* (the restore effect is declared first).
EffectsPass(prev, cur, mounted, rd, ps, hist) ==
  StartedPass(cur, RestoreHit(prev, cur, mounted),
              EntryUIResults(hist, cur.currentHistoryId),
              AutoCall(prev, cur, mounted, rd, ps, hist), rd, ps)

\* the outcome of a pass followed by the outcome of the later passes
ThenPasses(pass, rest) ==
  [view |-> rest.view,
   start |-> IF pass.start # "none" THEN pass.start ELSE rest.start,
   startView |-> IF pass.start # "none" THEN pass.startView
                 ELSE rest.startView,
   armed |-> pass.armed \/ rest.armed]

\* Renders and effects repeat until a render changes nothing.
RECURSIVE Commit(_, _, _, _, _, _, _)
RECURSIVE CommitAfter(_, _, _, _, _, _)
Commit(prev, cur, mounted, rd, ps, hist, fuel) ==
  CommitAfter(EffectsPass(prev, cur, mounted, rd, ps, hist), cur, rd, ps,
              hist, fuel)
CommitAfter(pass, cur, rd, ps, hist, fuel) ==
  IF fuel = 0 \/ pass.view = cur THEN pass
  ELSE ThenPasses(pass,
                  Commit(cur, pass.view, FALSE, rd, ps, hist, fuel - 1))


(* ---- tasks: async functions suspended at `await <api call>` ---- *)
NewTask(tid, fn, stage, hid, prompt, approach) ==
  [tid |-> tid, fn |-> fn, stage |-> stage, hid |-> hid, prompt |-> prompt,
   approach |-> approach, live |-> TRUE, attempt |-> 1, waiting |-> FALSE,
   afterAuto |-> FALSE, afterRestore |-> FALSE]

UIGeneratorFns ==
  {"generateUIFromAnalysis", "generateUIFromSolution", "generateUI"}

\* first stage of each generation function
FirstStage(fn) ==
  IF fn = "generateUIFromAnalysis" THEN "solution_architect"
  ELSE "solution_to_ui"

\* what an attempt of a pipeline call can settle to (the operation of
\* postJSON never throws)
FailedAttempt ==
  [kind |-> "return",
   env |-> [success |-> FALSE, data |-> Absent, error |-> CallError]]
SucceededAttempt(body) ==
  [kind |-> "return",
   env |-> [success |-> TRUE, data |-> body, error |-> Absent]]
\* the 2xx bodies of an endpoint that the pipeline tells apart:
\* idea_to_analysis with or without an analysis_board, solution_architect
\* with n approaches or failing validateData, any body of solution_to_ui
Bodies(stage) ==
  CASE stage = "idea_to_analysis" ->
         {[valid |-> TRUE, n |-> 0], [valid |-> FALSE, n |-> 0]}
    [] stage = "solution_architect" ->
         {[valid |-> TRUE, n |-> 0], [valid |-> TRUE, n |-> MaxApproaches],
          [valid |-> FALSE, n |-> 0]}
    [] OTHER -> {[valid |-> TRUE, n |-> 0]}

\* the envelopes withRetry can return to the task at its current attempt
Returned(t) ==
  {LoopBody(t.attempt, a).env :
     a \in {x \in {FailedAttempt} \cup
                  {SucceededAttempt(b) : b \in Bodies(t.stage)} :
              LoopBody(t.attempt, x).next = "return"}}

(* ---- end of an event: commit of the React state, effects, timers ---- *)
\* App renders UIGenerator
IsMounted(has, tab) == has /\ tab = "ui"
\* dependency list of App's reset effect
ResetDeps(flag, tab) == <<flag, tab>>

\* c is the outcome of the commit, restoreKept says that a restore timer of
\* this UIGenerator instance is still pending, timerDepsChanged that App's
\* reset effect runs again, autoTimer3 whether its timer is pending then
FinishEffects(tab2, gen2, input2, has2, hid2, flag2, rd2, ps2, hist2, tasks2, nextTask2, lastStart2, handoff, isMounted, c, restoreKept, timerDepsChanged, autoTimer3) ==
  /\ (isMounted /\ c.start # "none") => nextTask2 <= MaxTasks
  /\ UNCHANGED <<rvars, svars, kvars, nvars>>
  /\ activeTab' = tab2
  /\ isGenerating' = gen2
  /\ uiInput' = input2
  /\ hasContent' = has2
  /\ currentHistoryId' = hid2
  /\ shouldAutoGenerateUI' = flag2
  /\ reader' = rd2
  /\ parser' = ps2
  /\ history' = hist2
  /\ ug' = IF isMounted
             THEN [prompt |-> c.view.prompt, isGen |-> c.view.isGen,
                   content |-> c.view.content,
                   restoring |-> c.view.restoring,
                   localMd |-> c.view.localMd]
             ELSE NoUG
  /\ autoTimer' = autoTimer3
  /\ restoreTimer' = (isMounted /\ (restoreKept \/ c.armed))
  /\ restoreFirst' =
       /\ isMounted /\ (restoreKept \/ c.armed)
       /\ autoTimer3
       /\ IF timerDepsChanged THEN TRUE ELSE restoreFirst /\ restoreKept
  /\ tasks' =
       {[t EXCEPT
           !.live = @ /\ (isMounted \/ t.fn \notin UIGeneratorFns),
           !.afterAuto = @ /\ autoTimer3 /\ ~timerDepsChanged,
           !.afterRestore = @ /\ isMounted /\ (restoreKept \/ c.armed)] :
          t \in tasks2}
       \cup
       IF isMounted /\ c.start # "none"
         THEN {NewTask(nextTask2, c.start, FirstStage(c.start),
                       c.startView.currentHistoryId, c.startView.prompt,
                       IF c.start = "generateUIFromSolution" THEN 1 ELSE 0)}
         ELSE {}
  /\ nextTask' = IF isMounted /\ c.start # "none" THEN nextTask2 + 1
                 ELSE nextTask2
  /\ autoStarts' = (IF handoff THEN 0 ELSE autoStarts) +
                   (IF isMounted /\ c.start # "none" THEN 1 ELSE 0)
  /\ lastStart' =
       IF isMounted /\ c.start # "none"
         THEN [by |-> "auto", fn |-> c.start, readerLoaded |-> rd2 # 0,
               parserLoaded |-> ps2.loaded, approaches |-> ps2.n,
               approach |-> IF c.start = "generateUIFromSolution" THEN 1
                            ELSE 0,
               promptBlank |-> c.startView.prompt = ""]
         ELSE lastStart2

FinishMounted(tab2, gen2, input2, has2, hid2, flag2, u2, rd2, ps2, hist2, tasks2, nextTask2, autoTimer2, restoreTimer2, lastStart2, handoff, justMounted) ==
  FinishEffects(tab2, gen2, input2, has2, hid2, flag2, rd2, ps2, hist2,
                tasks2, nextTask2, lastStart2, handoff,
                IsMounted(has2, tab2),
                Commit(View(uiInput, shouldAutoGenerateUI, currentHistoryId,
                            ug),
                       View(input2, flag2, hid2,
                            IF justMounted THEN FreshUG(input2) ELSE u2),
                       justMounted, rd2, ps2, hist2, 4),
                restoreTimer2 /\ ~justMounted,
                ResetDeps(shouldAutoGenerateUI, activeTab) #
                  ResetDeps(flag2, tab2),
                IF ResetDeps(shouldAutoGenerateUI, activeTab) #
                     ResetDeps(flag2, tab2)
                  THEN flag2 /\ tab2 = "ui"
                  ELSE autoTimer2)

\* The arguments are the values the handler left: App state (tab2 .. flag2),
\* the UIGenerator state u2, the singletons, the store, the tasks and the
\* timers; handoff is TRUE iff the handler set the auto-generate signal.
Finish(tab2, gen2, input2, has2, hid2, flag2, u2, rd2, ps2, hist2, tasks2, nextTask2, autoTimer2, restoreTimer2, lastStart2, handoff) ==
  FinishMounted(tab2, gen2, input2, has2, hid2, flag2, u2, rd2, ps2, hist2,
                tasks2, nextTask2, autoTimer2, restoreTimer2, lastStart2,
                handoff,
                IsMounted(has2, tab2) /\ ~IsMounted(hasContent, activeTab))

\* an event that leaves the App state as it is
FinishSame(u2, rd2, ps2, hist2, tasks2) ==
  Finish(activeTab, isGenerating, uiInput, hasContent, currentHistoryId,
         shouldAutoGenerateUI, u2, rd2, ps2, hist2, tasks2, nextTask,
         autoTimer, restoreTimer, lastStart, FALSE)


(* ---- Init ---- *)
CoordInit ==
  /\ history = <<>>
  /\ nextId = 1
  /\ reader = 0
  /\ parser = NoSolution
  /\ activeTab = "analysis"
  /\ isGenerating = FALSE
  /\ uiInput = ""
  /\ hasContent = FALSE
  /\ currentHistoryId = 0
  /\ shouldAutoGenerateUI = FALSE
  /\ autoTimer = FALSE
  /\ ug = NoUG
  /\ restoreTimer = FALSE
  /\ restoreFirst = FALSE
  /\ tasks = {}
  /\ nextTask = 1
  /\ failures = {}
  /\ lastStart = NoStart
  /\ autoStarts = 0

(* ---- user events on the input screen ---- *)
\* EnhancedChatInput: the Generate button and the textarea are disabled
\* while isAnalyzing; the input screen is rendered while !hasContent
CanSubmit == ~hasContent /\ ~isGenerating

\* handleAnalysisGenerate up to `await apiClient.ideaToAnalysis(request)`
handleAnalysisGenerate(input) ==
  /\ CanSubmit
  /\ activeTab = "analysis"
  /\ nextId <= MaxRuns
  /\ nextTask <= MaxTasks
  /\ nextId' = nextId + 1
  /\ UNCHANGED failures
  /\ Finish(activeTab, TRUE, uiInput, hasContent, nextId,
            shouldAutoGenerateUI, ug, 0, parser,
            addEntry(history, nextId, "analysis", input),
            tasks \cup {NewTask(nextTask, "handleAnalysisGenerate",
                                "idea_to_analysis", nextId, input, 0)},
            nextTask + 1, autoTimer, restoreTimer, lastStart, FALSE)

\* handleUIGenerate up to `await apiClient.ideaToAnalysis(analysisRequest)`
handleUIGenerate(input) ==
  /\ CanSubmit
  /\ activeTab = "ui"
  /\ nextId <= MaxRuns
  /\ nextTask <= MaxTasks
  /\ nextId' = nextId + 1
  /\ UNCHANGED failures
  /\ Finish(activeTab, TRUE, input, hasContent, nextId,
            shouldAutoGenerateUI, ug, 0, parser,
            addEntry(history, nextId, "ui", input),
            tasks \cup {NewTask(nextTask, "handleUIGenerate",
                                "idea_to_analysis", nextId, input, 0)},
            nextTask + 1, autoTimer, restoreTimer, lastStart, FALSE)

\* the Analysis / UI tabs of the input screen (onTabChange = setActiveTab)
TabChange(tab) ==
  /\ ~hasContent
  /\ tab # activeTab
  /\ UNCHANGED <<nextId, failures>>
  /\ Finish(tab, isGenerating, uiInput, hasContent, currentHistoryId,
            shouldAutoGenerateUI, ug, reader, parser, history, tasks,
            nextTask, autoTimer, restoreTimer, lastStart, FALSE)

(* ---- user events on the content screen and the history panel ---- *)
\* the header button, rendered while hasContent
handleBackToInput ==
  /\ hasContent
  /\ UNCHANGED <<nextId, failures>>
  /\ Finish(activeTab, isGenerating, "", FALSE, 0, shouldAutoGenerateUI,
            ug, 0, parser, history, tasks, nextTask, autoTimer,
            restoreTimer, lastStart, FALSE)

\* HistoryPanel passes any entry whose status is not error
handleHistorySelect(i) ==
  LET entry == history[i]
      uiState == entry.results.uiState
  IN
  /\ entry.status # "error"
  /\ UNCHANGED <<nextId, failures>>
  /\ IF entry.status # "success" \/ ~entry.hasResults THEN
       Finish(IF entry.type = "analysis" THEN "analysis" ELSE "ui",
              isGenerating,
              IF entry.type = "analysis" THEN uiInput ELSE entry.prompt,
              FALSE, currentHistoryId, shouldAutoGenerateUI, ug, reader,
              parser, history, tasks, nextTask, autoTimer, restoreTimer,
              lastStart, FALSE)
     ELSE IF entry.type = "analysis" /\ entry.results.analysisData # 0 THEN
       Finish("analysis", isGenerating, uiInput, TRUE, entry.id,
              shouldAutoGenerateUI, ug, entry.results.analysisData, parser,
              history, tasks, nextTask, autoTimer, restoreTimer, lastStart,
              FALSE)
     ELSE IF entry.type = "ui" THEN
       Finish("ui", isGenerating,
              IF uiState.uiInput \notin {Absent, ""} THEN uiState.uiInput
              ELSE entry.prompt,
              TRUE, entry.id, shouldAutoGenerateUI, ug, reader, parser,
              history, tasks, nextTask, autoTimer, restoreTimer, lastStart,
              FALSE)
     ELSE
       Finish(activeTab, isGenerating, uiInput, hasContent, entry.id,
              shouldAutoGenerateUI, ug, reader, parser, history, tasks,
              nextTask, autoTimer, restoreTimer, lastStart, FALSE)

\* FeatureAnalysis renders its UI button unless it shows the loading card
\* (isGenerating && !isProductAnalysisLoaded)
handleGenerateUIFromAnalysis ==
  /\ hasContent
  /\ activeTab = "analysis"
  /\ ~(isGenerating /\ reader = 0)
  /\ UNCHANGED <<nextId, failures>>
  /\ Finish("ui", TRUE, AnalysisPrompt, hasContent, currentHistoryId, TRUE,
            ug, reader, parser, history, tasks, nextTask, autoTimer,
            restoreTimer, lastStart, TRUE)

\* an approach card or its table button: generateUIFromSolution(name) up to
\* `await solutionToUI(...)`
ClickApproach(a) ==
  /\ hasContent /\ activeTab = "ui"
  /\ ~((ug.isGen \/ isGenerating) /\ reader = 0 /\ ug.prompt # "")
  /\ ug.localMd
  /\ parser.loaded
  /\ a \in 1..parser.n
  /\ ~ug.isGen
  /\ nextTask <= MaxTasks
  /\ UNCHANGED <<nextId, failures>>
  /\ Finish(activeTab, isGenerating, uiInput, hasContent, currentHistoryId,
            shouldAutoGenerateUI,
            [ug EXCEPT !.isGen = TRUE, !.content = 0],
            reader, parser, history,
            tasks \cup {NewTask(nextTask, "generateUIFromSolution",
                                "solution_to_ui", currentHistoryId,
                                ug.prompt, a)},
            nextTask + 1, autoTimer, restoreTimer,
            [by |-> "click", fn |-> "generateUIFromSolution",
             readerLoaded |-> reader # 0, parserLoaded |-> TRUE,
             approaches |-> parser.n, approach |-> a,
             promptBlank |-> ug.prompt = ""],
            FALSE)

(* ---- timers ---- *)
\* the 500 ms timer of App's reset effect: setShouldAutoGenerateUI(false)
AutoGenerateTimerFires ==
  /\ autoTimer
  /\ ~restoreFirst
  /\ UNCHANGED <<nextId, failures>>
  /\ Finish(activeTab, isGenerating, uiInput, hasContent, currentHistoryId,
            FALSE, ug, reader, parser, history, tasks, nextTask, FALSE,
            restoreTimer, lastStart, FALSE)

\* the 100 ms timer of the restore effect: setIsRestoringFromHistory(false)
RestoreTimerFires ==
  /\ restoreTimer
  /\ UNCHANGED <<nextId, failures>>
  /\ Finish(activeTab, isGenerating, uiInput, hasContent, currentHistoryId,
            shouldAutoGenerateUI, [ug EXCEPT !.restoring = FALSE], reader,
            parser, history, tasks, nextTask, autoTimer, FALSE, lastStart,
            FALSE)


(* ---- an API call in flight: withRetry as seen by its caller ---- *)
Others(t) == tasks \ {t}
Failure(t, error) == [hid |-> t.hid, stage |-> t.stage, error |-> error]

\* an attempt fails and withRetry starts its wait
CallAttemptFails(t) ==
  /\ ~t.waiting
  /\ LoopBody(t.attempt, FailedAttempt).next = "retry"
  /\ tasks' = Others(t) \cup
              {[t EXCEPT !.waiting = TRUE, !.afterAuto = autoTimer,
                         !.afterRestore = restoreTimer]}
  /\ UNCHANGED <<history, nextId, reader, parser, activeTab, isGenerating,
                 uiInput, hasContent, currentHistoryId, shouldAutoGenerateUI,
                 autoTimer, ug, restoreTimer, restoreFirst, nextTask,
                 failures, lastStart, autoStarts>>
  /\ UNCHANGED <<rvars, svars, kvars, nvars>>

\* the wait (RetryDelay) is over; the timers that were pending when it began
\* are shorter and have fired
CallRetryDelayElapsed(t) ==
  /\ t.waiting
  /\ ~t.afterAuto
  /\ ~t.afterRestore
  /\ tasks' = Others(t) \cup
              {[t EXCEPT !.waiting = FALSE, !.attempt = @ + 1]}
  /\ UNCHANGED <<history, nextId, reader, parser, activeTab, isGenerating,
                 uiInput, hasContent, currentHistoryId, shouldAutoGenerateUI,
                 autoTimer, ug, restoreTimer, restoreFirst, nextTask,
                 failures, lastStart, autoStarts>>
  /\ UNCHANGED <<rvars, svars, kvars, nvars>>

(* ---- App handlers after `await apiClient.ideaToAnalysis(...)` ---- *)
handleAnalysisGenerateResume(t, env) ==
  /\ t.fn = "handleAnalysisGenerate"
  /\ ~t.waiting
  /\ UNCHANGED nextId
  /\ IF env.success /\ env.data.valid THEN
       /\ UNCHANGED failures
       /\ Finish("analysis", FALSE, uiInput, TRUE, currentHistoryId,
                 shouldAutoGenerateUI, ug, t.hid, parser,
                 updateEntryResults(
                   updateEntryStatus(history, t.hid, "success", Absent),
                   t.hid,
                   [analysisData |-> t.hid,
                    uiState |-> [NoUIState EXCEPT !.activeTab = "analysis"]]),
                 Others(t), nextTask, autoTimer, restoreTimer, lastStart,
                 FALSE)
     ELSE
       LET error == IF env.success THEN "Data validation failed"
                    ELSE env.error
       IN
       /\ failures' = failures \cup {Failure(t, error)}
       /\ Finish(activeTab, FALSE, uiInput, hasContent, currentHistoryId,
                 shouldAutoGenerateUI, ug,
                 IF env.success THEN -1 ELSE reader, parser,
                 updateEntryStatus(history, t.hid, "error", error),
                 Others(t), nextTask, autoTimer, restoreTimer, lastStart,
                 FALSE)

handleUIGenerateResume(t, env) ==
  /\ t.fn = "handleUIGenerate"
  /\ ~t.waiting
  /\ UNCHANGED nextId
  /\ IF ~env.success THEN
       /\ failures' = failures \cup {Failure(t, env.error)}
       /\ Finish(activeTab, FALSE, uiInput, hasContent, currentHistoryId,
                 shouldAutoGenerateUI, ug, reader, parser,
                 updateEntryStatus(history, t.hid, "error", env.error),
                 Others(t), nextTask, autoTimer, restoreTimer, lastStart,
                 FALSE)
     ELSE
       LET uiState == [NoUIState EXCEPT !.activeTab = "ui",
                                        !.uiInput = t.prompt]
           stored == updateEntryResults(
                       updateEntryStatus(history, t.hid, "success", Absent),
                       t.hid,
                       IF env.data.valid
                         THEN [analysisData |-> t.hid, uiState |-> uiState]
                         ELSE [uiState |-> uiState])
           \* JSON.stringify(undefined).length throws in the try block
           hist2 == IF env.data.valid THEN stored
                    ELSE updateEntryStatus(
                           stored, t.hid, "error",
                           "Cannot read properties of undefined")
       IN
       /\ UNCHANGED failures
       /\ Finish("ui", FALSE, uiInput, TRUE, currentHistoryId, TRUE, ug,
                 IF env.data.valid THEN t.hid ELSE -1, NoSolution, hist2,
                 Others(t), nextTask, autoTimer, restoreTimer, lastStart,
                 TRUE)

(* ---- UIGenerator functions after their awaits ---- *)
\* state updates of a function whose component instance is gone are dropped
Apply(t, u2) == IF t.live THEN u2 ELSE ug

\* generateUIFromAnalysis after `await solutionArchitect(solutionRequest)`
solutionArchitectResume(t, env) ==
  /\ t.fn = "generateUIFromAnalysis"
  /\ t.stage = "solution_architect"
  /\ ~t.waiting
  /\ UNCHANGED nextId
  /\ IF ~env.success THEN
       /\ failures' = failures \cup {Failure(t, env.error)}
       /\ FinishSame(Apply(t, [ug EXCEPT !.isGen = FALSE]), reader, parser,
                     history, Others(t))
     ELSE IF ~env.data.valid THEN
       \* loadFromObject resets isLoadedFlag and throws
       /\ failures' = failures \cup
            {Failure(t, "Failed to load solution architect data")}
       /\ FinishSame(Apply(t, [ug EXCEPT !.isGen = FALSE]), reader,
                     [parser EXCEPT !.loaded = FALSE], history, Others(t))
     ELSE IF env.data.n = 0 THEN
       /\ failures' = failures \cup
            {Failure(t, "No solution approaches found in response")}
       /\ FinishSame(Apply(t, [ug EXCEPT !.isGen = FALSE, !.localMd = TRUE]),
                     reader, [loaded |-> TRUE, origin |-> t.hid, n |-> 0],
                     history, Others(t))
     ELSE
       /\ UNCHANGED failures
       /\ FinishSame(Apply(t, [ug EXCEPT !.localMd = TRUE]), reader,
                     [loaded |-> TRUE, origin |-> t.hid, n |-> env.data.n],
                     history,
                     Others(t) \cup
                       {[t EXCEPT !.stage = "solution_to_ui", !.approach = 1,
                                  !.attempt = 1]})

\* what each function stores with updateEntryResults on success
StoredResults(t) ==
  LET uiResults(type, prompt) ==
        [content |-> t.tid, type |-> type, prompt |-> prompt]
      uiState == [NoUIState EXCEPT !.selectedApproach = t.approach,
                                   !.generatedContent = t.tid]
  IN
  CASE t.fn = "generateUIFromAnalysis" ->
         [solutionArchitectData |-> t.tid,
          uiResults |-> uiResults("analysis-based", Absent),
          uiState |-> uiState]
    [] t.fn = "generateUIFromSolution" ->
         [uiResults |-> uiResults("solution-based", Absent),
          uiState |-> uiState]
    [] OTHER ->
         [uiResults |-> uiResults("prompt-based", t.prompt),
          uiState |-> [uiState EXCEPT !.uiInput = t.prompt]]

\* generateUIFromAnalysis / generateUIFromSolution / generateUI after
\* `await solutionToUI(...)` or `await solutionToUIFromPrompt(prompt)`
solutionToUIResume(t, env) ==
  /\ t.fn \in UIGeneratorFns
  /\ t.stage = "solution_to_ui"
  /\ ~t.waiting
  /\ UNCHANGED nextId
  /\ IF env.success THEN
       /\ UNCHANGED failures
       /\ FinishSame(Apply(t, [ug EXCEPT !.isGen = FALSE,
                                         !.content = t.tid]),
                     reader, parser,
                     IF t.hid # 0
                       THEN updateEntryResults(history, t.hid,
                                               StoredResults(t))
                       ELSE history,
                     Others(t))
     ELSE
       /\ failures' = failures \cup {Failure(t, env.error)}
       /\ FinishSame(Apply(t, [ug EXCEPT !.isGen = FALSE]), reader, parser,
                     history, Others(t))

(* ---- the specifications ---- *)
\* the request layer at rest while the coordinator runs
RetryIdle ==
  /\ rOp = "postJSON"
  /\ rPc = "call"
  /\ rAttempt = 1
  /\ rLastError = Absent
  /\ rResult = NoEnvelope
  /\ rThrown = FALSE
  /\ rTrace = <<>>
  /\ rFetched = <<>>
  /\ rRetryLogs = 0
  /\ rFinalLogs = 0
  /\ rWaits = 0
  /\ rElapsed = 0
  /\ rOpen = 0
  /\ rEvents = <<>>

(***************************************************************************)
(* Part 3 - HistoryManager over its localStorage item                      *)
(***************************************************************************)
MaxOps == 3

\* what localStorage.getItem(STORAGE_KEY) can hold: nothing, a blob the
\* class wrote, text that is not JSON, the JSON text null, JSON without a
\* truthy `entries` (an object without the key, a number, an array), and an
\* object whose `entries` is truthy but not an array, as {"entries": 5}
ForeignKinds == {"unparseable", "null", "noEntries", "entriesNotArray"}
NoBlob == [kind |-> "missing", entries |-> <<>>, lastUpdated |-> 0]
ForeignBlob(kind) == [kind |-> kind, entries |-> <<>>, lastUpdated |-> 0]

\* entries left by earlier runs: a finished, a failed and an unfinished run
\* in turn
EarlierEntry(i) ==
  [NewEntry(i, IF i % 2 = 0 THEN "ui" ELSE "analysis", "earlier idea")
     EXCEPT !.status = CASE i % 3 = 1 -> "success"
                         [] i % 3 = 2 -> "error"
                         [] OTHER -> "pending",
            !.error = IF i % 3 = 2 THEN "Analysis failed" ELSE Absent]
EarlierSizes == {1, 2, MAX_ENTRIES - 1, MAX_ENTRIES}
EarlierBlob(n) ==
  [kind |-> "history", entries |-> [i \in 1..n |-> EarlierEntry(i)],
   lastUpdated |-> 0]

\* getHistory: the value it returns; `isArray` tells whether `entries` of the
\* value is an array, which is what push, findIndex and filter need
getHistory(b, t) ==
  CASE b.kind = "history" ->
         [isArray |-> TRUE, entries |-> b.entries,
          lastUpdated |-> b.lastUpdated]
    [] b.kind = "entriesNotArray" ->
         [isArray |-> FALSE, entries |-> <<>>, lastUpdated |-> t]
    [] OTHER ->
         [isArray |-> TRUE, entries |-> <<>>, lastUpdated |-> t]

saveHistory_LosesItem(b, entries, t, ok) ==
  IF ok
  THEN [kind |-> "history", entries |-> KeepNewest(entries),
        lastUpdated |-> t]
  ELSE NoBlob

\* saveHistory: `ok` tells whether setItem went through; when it throws the
\* error is logged and the item stays as it was
saveHistory(b, entries, t, ok) ==
  IF ok
  THEN [kind |-> "history", entries |-> KeepNewest(entries),
        lastUpdated |-> t]
  ELSE b

\* the item after each call of the class
EntryAdded(b, id, type, prompt, t, ok) ==
  LET h == getHistory(b, t) IN
  IF ~h.isArray THEN b
  ELSE saveHistory(b, addEntry(h.entries, id, type, prompt), t, ok)

StatusUpdated_AlwaysSaves(b, id, status, error, t, ok) ==
  LET h == getHistory(b, t) IN
  IF ~h.isArray THEN b
  ELSE saveHistory(b, updateEntryStatus(h.entries, id, status, error), t, ok)

StatusUpdated(b, id, status, error, t, ok) ==
  LET h == getHistory(b, t) IN
  IF ~h.isArray \/ EntryIndex(h.entries, id) = 0 THEN b
  ELSE saveHistory(b, updateEntryStatus(h.entries, id, status, error), t, ok)

ResultsUpdated(b, id, partial, t, ok) ==
  LET h == getHistory(b, t) IN
  IF ~h.isArray \/ EntryIndex(h.entries, id) = 0 THEN b
  ELSE saveHistory(b, updateEntryResults(h.entries, id, partial), t, ok)

EntryDeleted(b, id, t, ok) ==
  LET h == getHistory(b, t) IN
  IF ~h.isArray THEN b
  ELSE saveHistory(b, SelectSeq(h.entries, LAMBDA e : e.id # id), t, ok)

\* the partial results the callers store: handleUIGenerate after
\* idea_to_analysis, generateUIFromAnalysis and generateUI after
\* solution_to_ui
Partials ==
  << [analysisData |-> 1,
      uiState |-> [NoUIState EXCEPT !.activeTab = "ui", !.uiInput = "idea"]],
     [solutionArchitectData |-> 2,
      uiResults |-> [content |-> 2, type |-> "analysis-based",
                     prompt |-> Absent],
      uiState |-> [NoUIState EXCEPT !.selectedApproach = 1,
                                    !.generatedContent = 2]],
     [uiResults |-> [content |-> 3, type |-> "prompt-based",
                     prompt |-> "idea"]] >>

\* the ids a caller passes: the oldest and the newest entry that were ever
\* created, and an id that no entry has
IdArgs == {0, 1, storeNextId - 1}

NoStoreOp ==
  [op |-> "none", id |-> 0, status |-> Absent, error |-> Absent,
   partial |-> 0, wrote |-> FALSE, failed |-> FALSE, threw |-> FALSE,
   loadedArray |-> TRUE, loadedCount |-> 0]

\* what a call leaves behind: `b2` is the item after it
StoreCall(op, id, status, error, partial, b2, saves, ok, nid) ==
  LET h == getHistory(blob, now) IN
  /\ now + cacheCalls <= MaxOps
  /\ blob' = b2
  /\ now' = now + 1
  /\ storeNextId' = nid
  /\ storeOp' = [op |-> op, id |-> id, status |-> status, error |-> error,
                 partial |-> partial, wrote |-> saves /\ ok,
                 failed |-> saves /\ ~ok,
                 threw |-> ~h.isArray /\ op # "getHistory",
                 loadedArray |-> h.isArray,
                 loadedCount |-> Len(h.entries)]
  /\ UNCHANGED <<rvars, cvars, kvars, nvars>>

StoreGetHistory ==
  StoreCall("getHistory", 0, Absent, Absent, 0, blob, FALSE, FALSE,
            storeNextId)

StoreAddEntry(type, prompt, ok) ==
  StoreCall("addEntry", storeNextId, type, Absent, 0,
            EntryAdded(blob, storeNextId, type, prompt, now, ok),
            getHistory(blob, now).isArray, ok, storeNextId + 1)

StoreUpdateEntryStatus(id, status, error, ok) ==
  StoreCall("updateEntryStatus", id, status, error, 0,
            StatusUpdated(blob, id, status, error, now, ok),
            EntryIndex(getHistory(blob, now).entries, id) # 0, ok,
            storeNextId)

StoreUpdateEntryResults(id, p, ok) ==
  StoreCall("updateEntryResults", id, Absent, Absent, p,
            ResultsUpdated(blob, id, Partials[p], now, ok),
            EntryIndex(getHistory(blob, now).entries, id) # 0, ok,
            storeNextId)

StoreDeleteEntry(id, ok) ==
  StoreCall("deleteEntry", id, Absent, Absent, 0,
            EntryDeleted(blob, id, now, ok),
            getHistory(blob, now).isArray, ok, storeNextId)

StoreClearHistory(ok) ==
  /\ now + cacheCalls <= MaxOps
  /\ blob' = saveHistory(blob, <<>>, now, ok)
  /\ now' = now + 1
  /\ storeOp' = [NoStoreOp EXCEPT !.op = "clearHistory", !.wrote = ok,
                                  !.failed = ~ok]
  /\ UNCHANGED <<rvars, cvars, kvars, nvars, storeNextId>>

StoreGetHistoryByType(type) ==
  StoreCall("getHistoryByType", 0, type, Absent, 0, blob, FALSE, FALSE,
            storeNextId)

(***************************************************************************)
(* Part 4 - CacheManager over its localStorage item                        *)
(***************************************************************************)
CACHE_EXPIRY == 86400000

\* getDefaultState; null is 0
getDefaultState(t) ==
  [activeTab |-> "analysis", uiInput |-> "", hasContent |-> FALSE,
   solutionArchitectMarkdown |-> "", solutionArchitectData |-> 0,
   showHistory |-> FALSE, currentHistoryId |-> 0, analysisData |-> 0,
   analysisFormData |-> 0, lastUpdated |-> t]

NoCache == [kind |-> "missing", snap |-> getDefaultState(0)]

CacheExpired_AtExpiry(c, t) ==
  c.kind = "snapshot" /\ t - c.snap.lastUpdated >= CACHE_EXPIRY

\* loadState: the expiry test
CacheExpired(c, t) ==
  c.kind = "snapshot" /\ t - c.snap.lastUpdated > CACHE_EXPIRY

\* loadState: the snapshot it returns, and the item it leaves
loadState(c, t) ==
  IF c.kind = "missing" \/ CacheExpired(c, t) THEN getDefaultState(t)
  ELSE c.snap

AfterLoad(c, t) == IF CacheExpired(c, t) THEN NoCache ELSE c

\* {...existingCache, ...state, lastUpdated: Date.now()}
updatedCache(existing, state, t) ==
  [activeTab |-> Supplied(state, existing, "activeTab"),
   uiInput |-> Supplied(state, existing, "uiInput"),
   hasContent |-> Supplied(state, existing, "hasContent"),
   solutionArchitectMarkdown |->
     Supplied(state, existing, "solutionArchitectMarkdown"),
   solutionArchitectData |->
     Supplied(state, existing, "solutionArchitectData"),
   showHistory |-> Supplied(state, existing, "showHistory"),
   currentHistoryId |-> Supplied(state, existing, "currentHistoryId"),
   analysisData |-> Supplied(state, existing, "analysisData"),
   analysisFormData |-> Supplied(state, existing, "analysisFormData"),
   lastUpdated |-> t]

saveState_OntoDefault(c, partial, t, ok) ==
  IF ok
  THEN [kind |-> "snapshot",
        snap |-> updatedCache(getDefaultState(t), partial, t)]
  ELSE AfterLoad(c, t)

\* saveState: the item it leaves; `ok` tells whether setItem went through
saveState(c, partial, t, ok) ==
  IF ok
  THEN [kind |-> "snapshot",
        snap |-> updatedCache(loadState(c, t), partial, t)]
  ELSE AfterLoad(c, t)

\* the state App passes to saveState right after mounting
FreshAppState ==
  [activeTab |-> "analysis", uiInput |-> "", hasContent |-> FALSE,
   solutionArchitectMarkdown |-> "", solutionArchitectData |-> 0,
   showHistory |-> FALSE, currentHistoryId |-> 0]

\* the partial states the callers save: the App effect during a session,
\* handleAnalysisGenerate, and the form of FeatureAnalysis
CachePartials ==
  << [FreshAppState EXCEPT !.activeTab = "ui", !.uiInput = "idea",
                           !.hasContent = TRUE, !.currentHistoryId = 1],
     [analysisData |-> 1],
     [analysisFormData |-> 1] >>

clearCache(c) == NoCache

AppStart_KeepsCache(c, t, ok) == saveState(c, FreshAppState, t, ok)

\* the mount effects of App in their order: the save effect, then
\* clearCache
AppStart(c, t, ok) == clearCache(saveState(c, FreshAppState, t, ok))

\* the clock moves by one ms or by the expiry time, MaxMs and MaxDays
\* times at most
MaxMs == 3
MaxDays == 2
ClockSteps == {1, CACHE_EXPIRY}

NoCacheOp ==
  [op |-> "none", partial |-> 0, wrote |-> FALSE, threw |-> FALSE,
   before |-> "missing", expired |-> FALSE,
   returned |-> getDefaultState(0)]

CacheCall(op, p, c2, wrote, returned) ==
  /\ now + cacheCalls <= MaxOps
  /\ cache' = c2
  /\ cacheCalls' = cacheCalls + 1
  /\ cacheOp' = [op |-> op, partial |-> p, wrote |-> wrote, threw |-> FALSE,
                 before |-> cache.kind, expired |-> CacheExpired(cache, clock),
                 returned |-> returned]
  /\ UNCHANGED <<rvars, cvars, svars, nvars, clock>>

CacheSaveState(p, ok) ==
  CacheCall("saveState", p, saveState(cache, CachePartials[p], clock, ok), ok,
            getDefaultState(0))

CacheLoadState ==
  CacheCall("loadState", 0, AfterLoad(cache, clock), FALSE,
            loadState(cache, clock))

CacheClearCache ==
  CacheCall("clearCache", 0, clearCache(cache), FALSE, getDefaultState(0))

\* the page is loaded again: App mounts and its effects run
PageReload(ok) ==
  CacheCall("reload", 0, AppStart(cache, clock, ok), FALSE,
            getDefaultState(0))

ClockAdvances(d) ==
  /\ (clock + d) % CACHE_EXPIRY <= MaxMs
  /\ (clock + d) \div CACHE_EXPIRY <= MaxDays
  /\ clock' = clock + d
  /\ UNCHANGED <<rvars, cvars, svars, nvars, cache, cacheCalls, cacheOp>>

CacheIdle ==
  /\ cache = NoCache
  /\ clock = 1
  /\ cacheCalls = 0
  /\ cacheOp = NoCacheOp

CacheNext ==
  \/ \E p \in 1..Len(CachePartials) : \E ok \in BOOLEAN : CacheSaveState(p, ok)
  \/ CacheLoadState
  \/ CacheClearCache
  \/ \E ok \in BOOLEAN : PageReload(ok)
  \/ \E d \in ClockSteps : ClockAdvances(d)

(***************************************************************************)
(* Part 5 - the response parsers                                           *)
(***************************************************************************)
(* ---- AssessmentResponseParser ---- *)
\* `scores` of a record is the sequence of its [category, score] entries in
\* the key order of the object, which is the order Object.entries gives
Categories ==
  <<"strategic_alignment", "authenticity_and_evidence",
    "clarity_and_specificity", "risk_awareness">>
\* scores whose averages over four categories are 30, 35, ... 90: every
\* breakpoint of the grades is met exactly
ScoreValues == {30, 50, 70, 90}
KeyOrders == {<<1, 2, 3, 4>>, <<4, 3, 2, 1>>}
AssessmentRecords ==
  {[scores |-> [i \in 1..4 |-> [category |-> Categories[o[i]],
                                score |-> v[i]]],
    overall_score |-> v[1]] :
     o \in KeyOrders, v \in [1..4 -> ScoreValues]}
\* a string by what JSON.parse does with it: it throws ('' and any other
\* text that is not JSON), or it returns null or an object; JSON.stringify
\* of an object gives a text that parses to that object
EmptyText == [kind |-> "empty", scores |-> <<>>, overall_score |-> 0,
              rationale |-> FALSE]
GarbageText == [kind |-> "garbage", scores |-> <<>>, overall_score |-> 0,
                rationale |-> FALSE]
NullText == [kind |-> "null", scores |-> <<>>, overall_score |-> 0,
             rationale |-> FALSE]
ObjectText(scores, overall, rationale) ==
  [kind |-> "object", scores |-> scores, overall_score |-> overall,
   rationale |-> rationale]
\* objects with the four numeric scores, with or without their rationale
TextScores == {50, 90}
JsonTexts ==
  {GarbageText, NullText} \cup
  {ObjectText([i \in 1..4 |-> [category |-> Categories[i], score |-> v]],
              v, r) : v \in TextScores, r \in BOOLEAN}
Parses(text) == text.kind \in {"null", "object"}

\* `rationale` says that the held object has its four rationale strings
NoAssessment ==
  [loaded |-> FALSE, scores |-> <<>>, overall_score |-> 0,
   rationale |-> FALSE, rawJson |-> EmptyText]

\* Array.prototype.sort with (a, b) => b.score - a.score: a stable sort,
\* as insertion of each entry behind the entries that do not come after it
InsertDesc_BeforeEqual(x, sorted) ==
  LET k == Cardinality({i \in 1..Len(sorted) : sorted[i].score > x.score})
  IN  SubSeq(sorted, 1, k) \o <<x>> \o SubSeq(sorted, k + 1, Len(sorted))

InsertDesc(x, sorted) ==
  LET k == Cardinality({i \in 1..Len(sorted) : sorted[i].score >= x.score})
  IN  SubSeq(sorted, 1, k) \o <<x>> \o SubSeq(sorted, k + 1, Len(sorted))

RECURSIVE SortDesc(_)
SortDesc(entries) ==
  IF entries = <<>> THEN <<>>
  ELSE InsertDesc(entries[Len(entries)],
                  SortDesc(SubSeq(entries, 1, Len(entries) - 1)))

getScoreRanking(a) == IF ~a.loaded THEN <<>> ELSE SortDesc(a.scores)

\* getBestCategory and getWorstCategory; null is the empty sequence
getBestCategory(a) ==
  IF Len(getScoreRanking(a)) > 0 THEN <<getScoreRanking(a)[1]>> ELSE <<>>
getWorstCategory(a) ==
  IF Len(getScoreRanking(a)) > 0
  THEN <<getScoreRanking(a)[Len(getScoreRanking(a))]>>
  ELSE <<>>

RECURSIVE SumScores(_)
SumScores(entries) ==
  IF entries = <<>> THEN 0
  ELSE entries[1].score + SumScores(Tail(entries))

calculateGrade_ExclusiveBounds(total, n) ==
  CASE total > 90 * n -> "A+"
    [] total > 85 * n -> "A"
    [] total > 80 * n -> "A-"
    [] total > 75 * n -> "B+"
    [] total > 70 * n -> "B"
    [] total > 65 * n -> "B-"
    [] total > 60 * n -> "C+"
    [] total > 55 * n -> "C"
    [] total > 50 * n -> "C-"
    [] total > 45 * n -> "D+"
    [] total > 40 * n -> "D"
    [] total > 35 * n -> "D-"
    [] OTHER -> "F"

\* calculateGrade(total / n), the comparisons multiplied out by n
calculateGrade(total, n) ==
  CASE total >= 90 * n -> "A+"
    [] total >= 85 * n -> "A"
    [] total >= 80 * n -> "A-"
    [] total >= 75 * n -> "B+"
    [] total >= 70 * n -> "B"
    [] total >= 65 * n -> "B-"
    [] total >= 60 * n -> "C+"
    [] total >= 55 * n -> "C"
    [] total >= 50 * n -> "C-"
    [] total >= 45 * n -> "D+"
    [] total >= 40 * n -> "D"
    [] total >= 35 * n -> "D-"
    [] OTHER -> "F"

\* getAnalysis: the total, the ranking and the grade it returns
getAnalysis(a) ==
  IF ~a.loaded THEN [totalScore |-> 0, scoreRanking |-> <<>>, grade |-> "F"]
  ELSE [totalScore |-> SumScores(a.scores),
        scoreRanking |-> SortDesc(a.scores),
        grade |-> calculateGrade(SumScores(a.scores), Len(a.scores))]

\* validate(): the objects of the model all have their numeric scores
AssessmentValidate(a) == a.loaded /\ a.rationale
\* isLoaded(): data !== null
AssessmentIsLoaded(a) == a.loaded

NoAsmtOp ==
  [op |-> "none", threw |-> FALSE, returned |-> TRUE, result |-> <<>>,
   grade |-> "F", totalScore |-> 0]

AsmtReturns(op, a2, returned, result, grade, total) ==
  /\ asmt' = a2
  /\ asmtOp' = [op |-> op, threw |-> FALSE, returned |-> returned,
                result |-> result, grade |-> grade, totalScore |-> total]
  /\ UNCHANGED <<rvars, cvars, svars, kvars, sa, saOp, pa, paOp>>

AsmtCall(op, a2, result, grade, total) ==
  AsmtReturns(op, a2, TRUE, result, grade, total)

\* the parser after `this.rawJson = jsonString; this.data = JSON.parse(..)`:
\* a text that does not parse leaves `data` as it was
Parsed(a, text) ==
  IF Parses(text)
    THEN [loaded |-> text.kind = "object", scores |-> text.scores,
          overall_score |-> text.overall_score,
          rationale |-> text.rationale, rawJson |-> text]
    ELSE [loaded |-> a.loaded, scores |-> a.scores,
          overall_score |-> a.overall_score, rationale |-> a.rationale,
          rawJson |-> text]

\* loadFromString returns validate(), or false from its catch block
AsmtLoadFromString(text) ==
  AsmtReturns("loadFromString", Parsed(asmt, text),
              Parses(text) /\ AssessmentValidate(Parsed(asmt, text)), <<>>, "F", 0)

AsmtLoadFromObject(x) ==
  AsmtCall("loadFromObject",
           [loaded |-> TRUE, scores |-> x.scores,
            overall_score |-> x.overall_score, rationale |-> TRUE,
            rawJson |-> ObjectText(x.scores, x.overall_score, TRUE)],
           <<>>, "F", 0)

AsmtClear == AsmtCall("clear", NoAssessment, <<>>, "F", 0)

AsmtGetScoreRanking ==
  AsmtCall("getScoreRanking", asmt, getScoreRanking(asmt), "F", 0)

AsmtGetBestCategory ==
  AsmtCall("getBestCategory", asmt, getBestCategory(asmt), "F", 0)

AsmtGetWorstCategory ==
  AsmtCall("getWorstCategory", asmt, getWorstCategory(asmt), "F", 0)

AsmtGetAnalysis ==
  AsmtCall("getAnalysis", asmt, getAnalysis(asmt).scoreRanking,
           getAnalysis(asmt).grade, getAnalysis(asmt).totalScore)

AsmtIdle == asmt = NoAssessment /\ asmtOp = NoAsmtOp

AsmtNext ==
  \/ \E text \in JsonTexts : AsmtLoadFromString(text)
  \/ \E x \in AssessmentRecords : AsmtLoadFromObject(x)
  \/ AsmtClear
  \/ AsmtGetScoreRanking
  \/ AsmtGetBestCategory
  \/ AsmtGetWorstCategory
  \/ AsmtGetAnalysis

(* ---- JSON values as the parsers see them ---- *)
\* A value is undefined (absent), null, a bare scalar or an array.  A scalar
\* keeps its literal in `items`; the elements of an array are tokens that
\* stand for well-typed elements.
Undefined == [kind |-> "absent", items |-> <<>>]
Null == [kind |-> "null", items |-> <<>>]
Scalar(tok) == [kind |-> "scalar", items |-> <<tok>>]
Arr(elems) == [kind |-> "array", items |-> elems]
FalsyScalars == {"0", "false", "empty string"}
IsArray(v) == v.kind = "array"
\* what `if (v)`, `v ? a : b` and `v || w` test
Truthy(v) ==
  \/ v.kind = "array"
  \/ v.kind = "scalar" /\ v.items[1] \notin FalsyScalars
OrElse(v, w) == IF Truthy(v) THEN v ELSE w

(* ---- SolutionArchitectResponseParser ---- *)
\* `a || b || []` of the three alias accessors
FirstOf_PrefersSecond(first, second) ==
  OrElse(OrElse(second, first), Arr(<<>>))

FirstOf(first, second) == OrElse(OrElse(first, second), Arr(<<>>))

\* The raw responses handed to loadFromObject: records with one approach
\* whose alias fields are absent, null or arrays, and malformed ones
FirstSources == {Undefined, Null, Arr(<<>>), Arr(<<"first">>)}
SecondSources == {Undefined, Null, Arr(<<"second">>)}
RiskSources ==
  {<<Undefined, Arr(<<"second">>)>>, <<Arr(<<"first">>), Arr(<<"second">>)>>}
TableSources ==
  {Undefined, Null, Arr(<<"first">>)} \X {Undefined, Arr(<<"second">>)}
Approach(name, p, k, r, i) ==
  [approach_name |-> name, pros |-> p, key_benefits |-> k,
   risk_tradeoff_analysis |-> r, implementation_risk_analysis |-> i]
Summary(kind, e, m, rec) ==
  [kind |-> kind, evaluation_table |-> e, prioritization_matrix |-> m,
   recommendation |-> rec]
Response(kind, ps, isArr, approaches, summary) ==
  [kind |-> kind, problem_statement |-> ps,
   solution_analysis |-> [isArray |-> isArr, items |-> approaches],
   comparison_summary |-> summary]
NoSummary == Summary("absent", Undefined, Undefined, Undefined)
WellFormedResponses ==
  {Response("object", Scalar("text"), TRUE,
            <<Approach("A", p, k, r[1], r[2])>>,
            Summary("object", t[1], t[2], Scalar("text"))) :
     p \in FirstSources, k \in SecondSources, r \in RiskSources,
     t \in TableSources}
MalformedResponses ==
  { Response("null", Undefined, FALSE, <<>>, NoSummary),
    Response("scalar", Undefined, FALSE, <<>>, NoSummary),
    Response("object", Undefined, FALSE, <<>>, NoSummary),
    Response("object", Scalar("text"), FALSE, <<>>, NoSummary),
    Response("object", Scalar("text"), TRUE,
             <<Approach("A", Scalar("text"), Undefined, Undefined, Undefined)>>,
             NoSummary),
    Response("object", Scalar("text"), TRUE,
             <<Approach("A", Undefined, Undefined, Undefined, Scalar("text"))>>,
             Summary("object", Undefined, Scalar("text"), Undefined)),
    Response("object", Scalar("text"), TRUE, <<>>,
             Summary("object", Undefined, Scalar("text"), Undefined)),
    Response("object", Scalar("text"), TRUE, <<>>,
             Summary("object", Undefined, Undefined, Undefined)) }
\* responses with two approaches and a table of two entries (an entry of
\* the table is the approach name it carries), whose recommendation names
\* one approach or none
RecommendationTexts == {"text", "take A", "take B"}
OrderedResponses ==
  {Response("object", Scalar("text"), TRUE,
            <<Approach(names[1], Arr(<<"first">>), Undefined, Undefined,
                       Arr(<<"second">>)),
              Approach(names[2], Undefined, Arr(<<"second">>),
                       Arr(<<"first">>), Undefined)>>,
            Summary("object", t[1], t[2], Scalar(rec))) :
     names \in {<<"A", "B">>, <<"B", "A">>},
     t \in {<<Arr(<<"A", "B">>), Undefined>>,
            <<Undefined, Arr(<<"A", "B">>)>>},
     rec \in RecommendationTexts}
SolutionResponses ==
  WellFormedResponses \cup MalformedResponses \cup OrderedResponses
NoResponse == Response("null", Undefined, FALSE, <<>>, NoSummary)

\* the check of one approach inside validateData: "" when it passes
approachError(analysis) ==
  IF /\ Truthy(OrElse(analysis.pros, analysis.key_benefits))
     /\ ~IsArray(OrElse(analysis.pros, analysis.key_benefits))
  THEN "pros or key_benefits must be an array"
  ELSE IF /\ Truthy(OrElse(analysis.risk_tradeoff_analysis,
                           analysis.implementation_risk_analysis))
          /\ ~IsArray(OrElse(analysis.risk_tradeoff_analysis,
                             analysis.implementation_risk_analysis))
  THEN "risk_tradeoff_analysis or implementation_risk_analysis must be an array"
  ELSE ""

\* validateData: the message of the first violation it meets, "" for none
validateData(data) ==
  IF data.kind # "object" THEN "Data must be a non-null object"
  ELSE IF data.problem_statement.kind # "scalar"
  THEN "problem_statement must be a string"
  ELSE IF ~data.solution_analysis.isArray
  THEN "solution_analysis must be an array"
  ELSE IF \E n \in 1..Len(data.solution_analysis.items) :
            approachError(data.solution_analysis.items[n]) # ""
  THEN approachError(data.solution_analysis.items[
         CHOOSE n \in 1..Len(data.solution_analysis.items) :
           /\ approachError(data.solution_analysis.items[n]) # ""
           /\ \A m \in 1..(n - 1) :
                approachError(data.solution_analysis.items[m]) = ""])
  ELSE IF data.comparison_summary.kind # "object"
  THEN "comparison_summary must be an object"
  ELSE IF /\ Truthy(OrElse(data.comparison_summary.evaluation_table,
                           data.comparison_summary.prioritization_matrix))
          /\ ~IsArray(OrElse(data.comparison_summary.evaluation_table,
                             data.comparison_summary.prioritization_matrix))
  THEN "comparison_summary.evaluation_table or prioritization_matrix must be an array"
  ELSE IF data.comparison_summary.recommendation.kind # "scalar"
  THEN "comparison_summary.recommendation must be a string"
  ELSE ""

isLoaded(s) == s.isLoadedFlag /\ s.data.kind # "null"

\* getSolutionAnalysis: the first approach of that name, or none (null)
getSolutionAnalysis(s, approachName) ==
  LET found == {n \in 1..Len(s.data.solution_analysis.items) :
                  s.data.solution_analysis.items[n].approach_name
                    = approachName}
  IN  IF found = {} THEN <<>>
      ELSE <<s.data.solution_analysis.items[
               CHOOSE n \in found : \A m \in found : n <= m]>>

getEvaluationTable(s) ==
  FirstOf(s.data.comparison_summary.evaluation_table,
          s.data.comparison_summary.prioritization_matrix)

getApproachRisks(s, approachName) ==
  IF getSolutionAnalysis(s, approachName) = <<>> THEN Arr(<<>>)
  ELSE FirstOf(
         getSolutionAnalysis(s, approachName)[1].risk_tradeoff_analysis,
         getSolutionAnalysis(s, approachName)[1].implementation_risk_analysis)

getApproachPros(s, approachName) ==
  IF getSolutionAnalysis(s, approachName) = <<>> THEN Arr(<<>>)
  ELSE FirstOf(getSolutionAnalysis(s, approachName)[1].pros,
               getSolutionAnalysis(s, approachName)[1].key_benefits)

\* UIGenerator, generateUIFromSolution: key_benefits and
\* implementation_risk_analysis of the selected_approach it sends
selectedApproachFromSolution(solutionAnalysis) ==
  [key_benefits |->
     FirstOf(solutionAnalysis.pros, solutionAnalysis.key_benefits),
   implementation_risk_analysis |->
     FirstOf(solutionAnalysis.risk_tradeoff_analysis,
             solutionAnalysis.implementation_risk_analysis)]

\* UIGenerator, generateUIFromAnalysis: the same two fields
selectedApproachFromAnalysis(firstApproach) ==
  [key_benefits |-> OrElse(firstApproach.key_benefits, Arr(<<>>)),
   implementation_risk_analysis |->
     OrElse(firstApproach.implementation_risk_analysis, Arr(<<>>))]

\* the approach names that recommendation.includes(name) finds in a text
Mentioned(text) ==
  CASE text = "take A" -> {"A"}
    [] text = "take B" -> {"B"}
    [] OTHER -> {}

\* items.sort(...) of the two renders: the comparator puts the recommended
\* ones first, the sort is stable; names[n] is the approach name of items[n]
RECURSIVE Pick(_, _, _, _)
Pick(items, names, wanted, recommended) ==
  IF items = <<>> THEN <<>>
  ELSE (IF (names[1] \in wanted) = recommended THEN <<items[1]>> ELSE <<>>)
         \o Pick(Tail(items), Tail(names), wanted, recommended)
RecommendedFirst(items, names, wanted) ==
  Pick(items, names, wanted, TRUE) \o Pick(items, names, wanted, FALSE)

sortTable(table, wanted) ==
  IF IsArray(table)
  THEN Arr(RecommendedFirst(table.items, table.items, wanted))
  ELSE table

\* A render of UIGenerator while the parser is loaded: sort() works on the
\* array it is called on, which is the array getEvaluationTable and
\* getSolutionAnalyses return, the one held in `data`.
renderSorts(data, wanted) ==
  [data EXCEPT
     !.solution_analysis.items =
       RecommendedFirst(@, [n \in 1..Len(@) |-> @[n].approach_name],
                        wanted),
     !.comparison_summary.evaluation_table =
       IF Truthy(@) THEN sortTable(@, wanted) ELSE @,
     !.comparison_summary.prioritization_matrix =
       IF ~Truthy(data.comparison_summary.evaluation_table)
       THEN sortTable(@, wanted) ELSE @]

ApproachNames == {"A", "B"}
NoPayload ==
  [key_benefits |-> Undefined, implementation_risk_analysis |-> Undefined]
NotLoadedError == "Data not loaded. Call loadFromObject() first."
NoSaOp ==
  [op |-> "none", arg |-> "", threw |-> FALSE, error |-> "",
   result |-> Undefined, input |-> NoResponse, payload |-> NoPayload]

SaSends(op, arg, s2, threw, error, result, input, payload) ==
  /\ sa' = s2
  /\ saOp' = [op |-> op, arg |-> arg, threw |-> threw, error |-> error,
              result |-> result, input |-> input, payload |-> payload]
  /\ UNCHANGED <<rvars, cvars, svars, kvars, asmt, asmtOp, pa, paOp>>

SaCall(op, arg, s2, threw, error, result, input) ==
  SaSends(op, arg, s2, threw, error, result, input, NoPayload)

SaLoadFromObject(data) ==
  IF validateData(data) = ""
  THEN SaCall("loadFromObject", "", [data |-> data, isLoadedFlag |-> TRUE],
              FALSE, "", Undefined, data)
  ELSE SaCall("loadFromObject", "", [sa EXCEPT !.isLoadedFlag = FALSE],
              TRUE, validateData(data), Undefined, data)

SaClear ==
  SaCall("clear", "", [data |-> NoResponse, isLoadedFlag |-> FALSE],
         FALSE, "", Undefined, NoResponse)

SaIsLoaded ==
  SaCall("isLoaded", "", sa, FALSE, "",
         Scalar(IF isLoaded(sa) THEN "true" ELSE "false"), NoResponse)

\* every accessor begins with the same test of isLoaded
SaAccessor(op, arg, result) ==
  IF ~isLoaded(sa)
  THEN SaCall(op, arg, sa, TRUE, NotLoadedError, Undefined, NoResponse)
  ELSE SaCall(op, arg, sa, FALSE, "", result, NoResponse)

SaGetProblemStatement ==
  SaAccessor("getProblemStatement", "", sa.data.problem_statement)

SaGetEvaluationTable ==
  SaAccessor("getEvaluationTable", "", getEvaluationTable(sa))

SaGetApproachRisks(approachName) ==
  SaAccessor("getApproachRisks", approachName,
             getApproachRisks(sa, approachName))

SaGetApproachPros(approachName) ==
  SaAccessor("getApproachPros", approachName,
             getApproachPros(sa, approachName))

\* generateUIFromSolution(approachName) up to its await: the errors are
\* caught inside and shown, `payload` is the selected_approach it sends
SaGenerateUIFromSolution(approachName) ==
  IF ~isLoaded(sa)
  THEN SaCall("generateUIFromSolution", approachName, sa, FALSE,
              "Solution architect data not available", Undefined,
              NoResponse)
  ELSE IF getSolutionAnalysis(sa, approachName) = <<>>
  THEN SaCall("generateUIFromSolution", approachName, sa, FALSE,
              "Solution approach not found", Undefined, NoResponse)
  ELSE SaSends("generateUIFromSolution", approachName, sa, FALSE, "",
               Undefined, NoResponse,
               selectedApproachFromSolution(
                 getSolutionAnalysis(sa, approachName)[1]))

\* generateUIFromAnalysis from the answer of solution_architect up to its
\* second await: loadFromObject(solutionResponse.data), then the payload
\* from solutionData.solution_analysis[0]
SaGenerateUIFromAnalysis(data) ==
  IF validateData(data) # ""
  THEN SaCall("generateUIFromAnalysis", "",
              [sa EXCEPT !.isLoadedFlag = FALSE], FALSE, validateData(data),
              Undefined, data)
  ELSE IF data.solution_analysis.items = <<>>
  THEN SaCall("generateUIFromAnalysis", "",
              [data |-> data, isLoadedFlag |-> TRUE], FALSE,
              "No solution approaches found in response", Undefined, data)
  ELSE SaSends("generateUIFromAnalysis",
               data.solution_analysis.items[1].approach_name,
               [data |-> data, isLoadedFlag |-> TRUE], FALSE, "", Undefined,
               data,
               selectedApproachFromAnalysis(data.solution_analysis.items[1]))

\* UIGenerator renders its evaluation matrix and its approach cards
SaRender ==
  /\ isLoaded(sa)
  /\ SaCall("render", "",
            [sa EXCEPT !.data =
               renderSorts(@, Mentioned(
                 sa.data.comparison_summary.recommendation.items[1]))],
            FALSE, "", Undefined, NoResponse)

SaIdle ==
  /\ sa = [data |-> NoResponse, isLoadedFlag |-> FALSE]
  /\ saOp = NoSaOp

SaNext ==
  \/ \E data \in SolutionResponses : SaLoadFromObject(data)
  \/ SaClear
  \/ SaIsLoaded
  \/ SaGetProblemStatement
  \/ SaGetEvaluationTable
  \/ \E approachName \in ApproachNames : SaGetApproachRisks(approachName)
  \/ \E approachName \in ApproachNames : SaGetApproachPros(approachName)
  \/ \E approachName \in ApproachNames :
       SaGenerateUIFromSolution(approachName)
  \/ \E data \in SolutionResponses : SaGenerateUIFromAnalysis(data)
  \/ SaRender

(* ---- ProductAnalysisReader ---- *)
\* The records handed to loadFromObject.  `kind` of the record and of its two
\* nested objects tells whether an object stands there, or nothing, null or
\* a bare scalar (a non-empty string, say).
StringInputs == {Undefined, Null, Scalar("empty string"), Scalar("text")}
ArrayInputs ==
  {Undefined, Null, Scalar("0"), Scalar("text"), Arr(<<>>), Arr(<<"a">>)}
\* what stands for user_problem_goal and for scope
ObjectKinds ==
  {<<"object", "object">>, <<"absent", "null">>, <<"null", "absent">>,
   <<"scalar", "object">>, <<"object", "scalar">>}
\* only an object has fields
UserProblemGoal(kind, p, g) ==
  IF kind = "object" THEN [kind |-> kind, problem |-> p, user_goal |-> g]
  ELSE [kind |-> kind, problem |-> Undefined, user_goal |-> Undefined]
Scope(kind, i, o, c) ==
  IF kind = "object"
  THEN [kind |-> kind, in_scope |-> i, out_scope |-> o, constraints |-> c]
  ELSE [kind |-> kind, in_scope |-> Undefined, out_scope |-> Undefined,
        constraints |-> Undefined]
AnalysisData(kind, pg, bg, upg, ka, ts, ui, sc, sm) ==
  [kind |-> kind, product_goal |-> pg, business_goal |-> bg,
   user_problem_goal |-> upg, key_assumptions_open_questions |-> ka,
   target_segments |-> ts, user_insights_data |-> ui, scope |-> sc,
   success_metrics |-> sm]
NoAnalysis ==
  AnalysisData("null", Undefined, Undefined,
               UserProblemGoal("absent", Undefined, Undefined), Undefined, Undefined,
               Undefined, Scope("absent", Undefined, Undefined, Undefined), Undefined)
ScalarAnalysis == [NoAnalysis EXCEPT !.kind = "scalar"]
\* 0, '' or false where the record should stand
FalsyAnalysis == [NoAnalysis EXCEPT !.kind = "falsy scalar"]
\* two string values, two array values and what stands for the two nested
\* objects are drawn for each record and spread over its fields
AnalysisInputs ==
  {AnalysisData("object", s1, s2, UserProblemGoal(k[1], s2, s1), s1, a1, a2,
                Scope(k[2], a2, a1, a2), a1) :
     s1 \in StringInputs, s2 \in {Undefined, Scalar("text")},
     a1 \in ArrayInputs, a2 \in {Null, Scalar("text"), Arr(<<"a">>)},
     k \in ObjectKinds}
  \cup {NoAnalysis, ScalarAnalysis, FalsyAnalysis}

\* if (!v) v = ''
normalizeString(v) == IF ~Truthy(v) THEN Scalar("empty string") ELSE v

\* if (!Array.isArray(v)) v = v ? [v] : []
normalizeArray_WrapsArrays(v) ==
  IF IsArray(v) THEN Arr(<<"[">> \o v.items \o <<"]">>)
  ELSE IF Truthy(v) THEN Arr(v.items) ELSE Arr(<<>>)

normalizeArray_KeepsFalsy(v) ==
  IF IsArray(v) THEN v
  ELSE IF Truthy(v) THEN Arr(v.items) ELSE v

normalizeArray(v) ==
  IF IsArray(v) THEN v
  ELSE IF Truthy(v) THEN Arr(v.items) ELSE Arr(<<>>)

\* normalizeData in three stretches.  An assignment to a property of a bare
\* scalar throws a TypeError (the module is strict code), which ends the
\* call with the fields before it normalized and the ones after it not.
normalizeGoals(d) ==
  [d EXCEPT !.product_goal = normalizeString(@),
            !.business_goal = normalizeString(@)]

normalizeUserProblemGoal(upg) ==
  IF upg.kind \in {"absent", "null"}
  THEN UserProblemGoal("object", Scalar("empty string"),
                       Scalar("empty string"))
  ELSE UserProblemGoal("object", normalizeString(upg.problem),
                       normalizeString(upg.user_goal))

normalizeMiddle(d) ==
  [d EXCEPT !.user_problem_goal = normalizeUserProblemGoal(@),
            !.key_assumptions_open_questions = normalizeString(@),
            !.target_segments = normalizeArray(@),
            !.user_insights_data = normalizeArray(@)]

normalizeScope(sc) ==
  IF sc.kind \in {"absent", "null"}
  THEN Scope("object", Arr(<<>>), Arr(<<>>), Arr(<<>>))
  ELSE Scope("object", normalizeArray(sc.in_scope),
             normalizeArray(sc.out_scope), normalizeArray(sc.constraints))

normalizeEnd(d) ==
  [d EXCEPT !.scope = normalizeScope(@),
            !.success_metrics = normalizeArray(@)]

\* if (!this.data)
NoData(d) == d.kind \in {"null", "falsy scalar"}

normalizeData(d) ==
  IF NoData(d) THEN [data |-> d, threw |-> FALSE]
  ELSE IF d.kind = "scalar" THEN [data |-> d, threw |-> TRUE]
  ELSE IF d.user_problem_goal.kind = "scalar"
  THEN [data |-> normalizeGoals(d), threw |-> TRUE]
  ELSE IF d.scope.kind = "scalar"
  THEN [data |-> normalizeMiddle(normalizeGoals(d)), threw |-> TRUE]
  ELSE [data |-> normalizeEnd(normalizeMiddle(normalizeGoals(d))),
        threw |-> FALSE]

\* the getters: this.data?.field || default
getProductGoal(d) ==
  IF d.kind = "object" /\ Truthy(d.product_goal) THEN d.product_goal
  ELSE Scalar("empty string")

getTargetSegments(d) ==
  IF d.kind = "object" /\ Truthy(d.target_segments) THEN d.target_segments
  ELSE Arr(<<>>)

getInScopeItems(d) ==
  IF /\ d.kind = "object"
     /\ d.scope.kind = "object"
     /\ Truthy(d.scope.in_scope)
  THEN d.scope.in_scope
  ELSE Arr(<<>>)

\* validate(): the errors it collects, in its order; isValid is that there
\* are none.  A field of a bare scalar reads as undefined.
Missing(v) == v.kind \in {"absent", "null"}
ErrorIf(cond, message) == IF cond THEN <<message>> ELSE <<>>
validateUserProblemGoal(upg) ==
  IF Missing(upg) THEN <<"Missing user_problem_goal">>
  ELSE ErrorIf(Missing(upg.problem), "Missing user_problem_goal.problem") \o
       ErrorIf(Missing(upg.user_goal), "Missing user_problem_goal.user_goal")
validateScope(sc) ==
  IF Missing(sc) THEN <<"Missing scope">>
  ELSE ErrorIf(~IsArray(sc.in_scope), "scope.in_scope must be an array") \o
       ErrorIf(~IsArray(sc.out_scope), "scope.out_scope must be an array") \o
       ErrorIf(~IsArray(sc.constraints),
               "scope.constraints must be an array")
validate(d) ==
  IF NoData(d) THEN <<"No data loaded">>
  ELSE ErrorIf(Missing(d.product_goal), "Missing product_goal") \o
       validateUserProblemGoal(d.user_problem_goal) \o
       ErrorIf(~IsArray(d.target_segments),
               "target_segments must be an array") \o
       ErrorIf(~IsArray(d.user_insights_data),
               "user_insights_data must be an array") \o
       validateScope(d.scope) \o
       ErrorIf(~IsArray(d.success_metrics),
               "success_metrics must be an array")

NoPaOp ==
  [op |-> "none", threw |-> FALSE, result |-> Undefined, input |-> NoAnalysis]

PaCall(op, d2, threw, result, input) ==
  /\ pa' = d2
  /\ paOp' = [op |-> op, threw |-> threw, result |-> result,
              input |-> input]
  /\ UNCHANGED <<rvars, cvars, svars, kvars, asmt, asmtOp, sa, saOp>>

\* `input` is the record as it was handed in
PaLoadFromObject(data) ==
  PaCall("loadFromObject", normalizeData(data).data,
         normalizeData(data).threw, Undefined, data)

\* normalizeData called again on the record held: `input` is that record
PaNormalizeData ==
  PaCall("normalizeData", normalizeData(pa).data, normalizeData(pa).threw,
         Undefined, pa)

\* `result` is the list of errors returned
PaValidate == PaCall("validate", pa, FALSE, Arr(validate(pa)), NoAnalysis)

PaClear == PaCall("clear", NoAnalysis, FALSE, Undefined, NoAnalysis)

PaIsLoaded ==
  PaCall("isLoaded", pa, FALSE,
         Scalar(IF pa.kind # "null" THEN "true" ELSE "false"), NoAnalysis)

PaGetProductGoal ==
  PaCall("getProductGoal", pa, FALSE, getProductGoal(pa), NoAnalysis)

PaGetTargetSegments ==
  PaCall("getTargetSegments", pa, FALSE, getTargetSegments(pa), NoAnalysis)

PaGetInScopeItems ==
  PaCall("getInScopeItems", pa, FALSE, getInScopeItems(pa), NoAnalysis)

PaIdle == pa = NoAnalysis /\ paOp = NoPaOp

PaNext ==
  \/ \E data \in AnalysisInputs : PaLoadFromObject(data)
  \/ PaNormalizeData
  \/ PaValidate
  \/ PaClear
  \/ PaIsLoaded
  \/ PaGetProductGoal
  \/ PaGetTargetSegments
  \/ PaGetInScopeItems

ParsersIdle == AsmtIdle /\ SaIdle /\ PaIdle

StoreIdle ==
  /\ blob = NoBlob
  /\ now = 1
  /\ storeNextId = 1
  /\ storeOp = NoStoreOp

StoreNext ==
  \/ StoreGetHistory
  \/ \E type \in {"analysis", "ui"} : \E ok \in BOOLEAN :
       StoreAddEntry(type, "idea", ok)
  \/ \E id \in IdArgs : \E status \in {"success", "error"} :
       \E error \in {Absent, "Analysis failed"} : \E ok \in BOOLEAN :
         StoreUpdateEntryStatus(id, status, error, ok)
  \/ \E id \in IdArgs : \E p \in 1..Len(Partials) : \E ok \in BOOLEAN :
       StoreUpdateEntryResults(id, p, ok)
  \/ \E id \in IdArgs : \E ok \in BOOLEAN : StoreDeleteEntry(id, ok)
  \/ \E ok \in BOOLEAN : StoreClearHistory(ok)
  \/ \E type \in {"analysis", "ui"} : StoreGetHistoryByType(type)

\* the store as the class itself leaves it: no item yet, or a blob written
\* by earlier calls
InitStore ==
  /\ RetryIdle
  /\ CoordInit
  /\ CacheIdle /\ ParsersIdle
  /\ now = 1
  /\ storeOp = NoStoreOp
  /\ \/ blob = NoBlob /\ storeNextId = 1
     \/ \E n \in EarlierSizes :
          blob = EarlierBlob(n) /\ storeNextId = n + 1
SpecStore == InitStore /\ [][StoreNext]_vars

\* the same calls over any item, whoever wrote it
InitLoad ==
  /\ RetryIdle
  /\ CoordInit
  /\ CacheIdle /\ ParsersIdle
  /\ now = 1
  /\ storeOp = NoStoreOp
  /\ \/ blob = NoBlob /\ storeNextId = 1
     \/ \E kind \in ForeignKinds : blob = ForeignBlob(kind) /\ storeNextId = 1
     \/ \E n \in EarlierSizes :
          blob = EarlierBlob(n) /\ storeNextId = n + 1
SpecLoad == InitLoad /\ [][StoreNext]_vars

\* the calls made on CacheManager, the page reloads and the clock
InitCache == RetryIdle /\ CoordInit /\ StoreIdle /\ CacheIdle /\ ParsersIdle
SpecCache == InitCache /\ [][CacheNext]_vars

\* the two persistent stores side by side
InitStorage ==
  /\ RetryIdle
  /\ CoordInit
  /\ CacheIdle /\ ParsersIdle
  /\ now = 1
  /\ storeOp = NoStoreOp
  /\ \/ blob = NoBlob /\ storeNextId = 1
     \/ blob = EarlierBlob(2) /\ storeNextId = 3
StorageNext == StoreNext \/ CacheNext
SpecStorage == InitStorage /\ [][StorageNext]_vars

\* the coordinator: user events, timers and the API calls of its pipelines
Init == RetryIdle /\ CoordInit /\ StoreIdle /\ CacheIdle /\ ParsersIdle
Next ==
  \/ \E input \in Inputs : handleAnalysisGenerate(input)
  \/ \E input \in Inputs : handleUIGenerate(input)
  \/ \E tab \in {"analysis", "ui"} : TabChange(tab)
  \/ handleBackToInput
  \/ \E i \in 1..Len(history) : handleHistorySelect(i)
  \/ handleGenerateUIFromAnalysis
  \/ \E a \in 1..MaxApproaches : ClickApproach(a)
  \/ AutoGenerateTimerFires
  \/ RestoreTimerFires
  \/ \E t \in tasks : CallAttemptFails(t)
  \/ \E t \in tasks : CallRetryDelayElapsed(t)
  \/ \E t \in tasks : \E env \in Returned(t) :
       handleAnalysisGenerateResume(t, env)
  \/ \E t \in tasks : \E env \in Returned(t) : handleUIGenerateResume(t, env)
  \/ \E t \in tasks : \E env \in Returned(t) : solutionArchitectResume(t, env)
  \/ \E t \in tasks : \E env \in Returned(t) : solutionToUIResume(t, env)
Spec == Init /\ [][Next]_vars

\* The page after one completed run of the UI workflow: handleUIGenerate
\* created entry 1, generateUIFromAnalysis loaded the solution parser and
\* stored its results, then the user pressed the back button and the signal
\* timer fired. The tasks of that run are over; PastTask names the one that
\* produced the stored records.
PastTask == MaxTasks + 1
CoordAfterRun ==
  /\ history =
       <<[id |-> 1, type |-> "ui", prompt |-> "idea", status |-> "success",
          error |-> Absent, hasResults |-> TRUE,
          results |->
            [analysisData |-> 1, solutionArchitectData |-> PastTask,
             uiResults |-> [content |-> PastTask, type |-> "analysis-based",
                            prompt |-> Absent],
             uiState |-> [NoUIState EXCEPT !.selectedApproach = 1,
                                           !.generatedContent = PastTask]]]>>
  /\ nextId = 2
  /\ reader = 0
  /\ parser = [loaded |-> TRUE, origin |-> 1, n |-> MaxApproaches]
  /\ activeTab = "ui"
  /\ isGenerating = FALSE
  /\ uiInput = ""
  /\ hasContent = FALSE
  /\ currentHistoryId = 0
  /\ shouldAutoGenerateUI = FALSE
  /\ autoTimer = FALSE
  /\ ug = NoUG
  /\ restoreTimer = FALSE
  /\ restoreFirst = FALSE
  /\ tasks = {}
  /\ nextTask = 1
  /\ failures = {}
  /\ lastStart =
       [by |-> "auto", fn |-> "generateUIFromAnalysis",
        readerLoaded |-> TRUE, parserLoaded |-> FALSE, approaches |-> 0,
        approach |-> 0, promptBlank |-> FALSE]
  /\ autoStarts = 1
InitSecondRun ==
  RetryIdle /\ CoordAfterRun /\ StoreIdle /\ CacheIdle /\ ParsersIdle
SpecSecondRun == InitSecondRun /\ [][Next]_vars

\* one request through withRetry, the coordinator at rest
InitRetry == RetryInit /\ CoordInit /\ StoreIdle /\ CacheIdle /\ ParsersIdle
SpecRetry == InitRetry /\ [][RetryNext]_vars

\* each response parser taken by itself, from its empty instance
SpecAssess == Init /\ [][AsmtNext]_vars
SpecSolution == Init /\ [][SaNext]_vars
SpecReader == Init /\ [][PaNext]_vars

(***************************************************************************)
(* Properties of the PipelineCoordinator (checked under Spec)              *)
(***************************************************************************)
Entry(id) == history[EntryIndex(history, id)]

\* C6: while one pipeline run is in flight a second invocation is a no-op,
\* hence at most one run (one pipeline function suspended at an API call) is
\* in flight at any time.
C6_AtMostOneRunInFlight == Cardinality(tasks) <= 1

\* C7: when no run is in flight any more, the generating indication is
\* cleared, so that the input screen, once it is shown, accepts an
\* invocation again.
C7_IdleInputScreenAccepts == (tasks = {} /\ ~hasContent) => CanSubmit

\* C8 as stated: the generation started last was chosen by residency alone:
\* a loaded SolutionRecord means solution_to_ui on its first or selected
\* approach, else a loaded AnalysisRecord means solution_architect first,
\* else the raw prompt.
C8_StrategyByResidency ==
  lastStart.by # "none" =>
    lastStart.fn = (IF lastStart.parserLoaded THEN "generateUIFromSolution"
                    ELSE IF lastStart.readerLoaded
                      THEN "generateUIFromAnalysis"
                    ELSE "generateUI")

\* C8 amended: as stated when the loaded SolutionRecord has an approach (the
\* first one for the auto-generate effect, the selected one for a click, and
\* solution_architect is not called); a loaded SolutionRecord without any
\* approach falls back to the raw prompt, and a generation from the prompt
\* only starts when the prompt is not blank.
C8_StrategyWithFallback ==
  /\ lastStart.by # "none" =>
       /\ lastStart.fn =
            (IF lastStart.parserLoaded
               THEN IF lastStart.approaches > 0 THEN "generateUIFromSolution"
                    ELSE "generateUI"
             ELSE IF lastStart.readerLoaded THEN "generateUIFromAnalysis"
             ELSE "generateUI")
       /\ lastStart.fn = "generateUIFromSolution" =>
            /\ lastStart.approach \in 1..lastStart.approaches
            /\ lastStart.by = "auto" => lastStart.approach = 1
       /\ lastStart.fn = "generateUI" => ~lastStart.promptBlank
  /\ \A t \in tasks :
       t.stage = "solution_architect" => t.fn = "generateUIFromAnalysis"

\* a generation started from the prompt although a SolutionRecord was loaded
C8_Witness ==
  /\ lastStart.by = "auto"
  /\ lastStart.parserLoaded
  /\ lastStart.approaches = 0
  /\ lastStart.fn = "generateUI"
  /\ \E t \in tasks : t.fn = "generateUI" /\ t.stage = "solution_to_ui"

\* C9: every failure of a stage (idea_to_analysis, solution_architect,
\* solution_to_ui) of a run that has a HistoryEntry leaves that entry with
\* status error and with the error string of the failure.
C9_FailureMarksEntry ==
  \A f \in failures :
    f.hid # 0 =>
      /\ Entry(f.hid).status = "error"
      /\ Entry(f.hid).error = f.error

\* C10: between the setting of the auto-generate signal and its clearing by
\* the 500 ms timer the auto-generate effect starts at most one generation.
C10_AtMostOneStartPerHandoff ==
  (shouldAutoGenerateUI /\ autoTimer) => autoStarts <= 1

\* the stage failures surfaced by the step, and the calls it started
NewFailures == failures' \ failures
NewCalls == {t \in tasks' : \A o \in tasks : o.tid # t.tid}

\* C11: in the UI workflow started from a raw prompt, the step in which
\* idea_to_analysis is given up (it failed all its attempts) starts one
\* solution_to_ui call keyed on the raw prompt of the run.
C11_PromptFallbackAfterAnalysisFailure ==
  [][\A f \in NewFailures :
       (f.stage = "idea_to_analysis" /\ Entry(f.hid).type = "ui") =>
         \E t \in NewCalls :
           /\ t.fn = "generateUI"
           /\ t.stage = "solution_to_ui"
           /\ t.prompt = Entry(f.hid).prompt]_vars

\* C12: once solution_architect has succeeded in a run that has a
\* HistoryEntry (the run goes on to solution_to_ui), the entry's results bag
\* holds the solution record.
C12_SolutionRecordStoredOnSuccess ==
  \A t \in tasks :
    (t.fn = "generateUIFromAnalysis" /\ t.stage = "solution_to_ui" /\
     t.hid # 0) =>
      Entry(t.hid).results.solutionArchitectData # 0

\* C13: the step in which a stage failure is surfaced starts no further
\* remote call for that run and leaves the results bag of every entry as it
\* was.
C13_FailureAbortsWithoutRollback ==
  [][NewFailures # {} =>
       /\ \A f \in NewFailures : \A t \in NewCalls : t.hid # f.hid
       /\ Len(history') = Len(history)
       /\ \A i \in 1..Len(history) :
            history'[i].results = history[i].results]_vars

\* C14: once the status of an entry is success or error, no call of the
\* store changes it while the entry exists.
C14_TerminalStatusNeverChanges ==
  [][\A i \in 1..Len(blob.entries) : \A j \in 1..Len(blob'.entries) :
       (/\ blob.entries[i].status \in {"success", "error"}
        /\ blob'.entries[j].id = blob.entries[i].id) =>
         blob'.entries[j].status = blob.entries[i].status]_vars

\* C15: an entry of the history carries an error string only if its status
\* is error.
C15_ErrorOnlyIfStatusError ==
  \A i \in 1..Len(history) :
    history[i].error # Absent => history[i].status = "error"

\* an entry marked success first and error afterwards by the same handler
C15_Witness ==
  \E i \in 1..Len(history) :
    /\ history[i].status = "error"
    /\ history[i].error = "Cannot read properties of undefined"
    /\ history[i].hasResults

\* the entries of the item that carry the id
WithId(entries, id) == {i \in 1..Len(entries) : entries[i].id = id}

\* C16: an addEntry whose write goes through appends exactly one pending
\* entry under the id it returns, an id no entry had; when the next call is
\* updateEntryStatus(id, 'success') and it is written, the store holds
\* exactly one entry with that id, its status is success and its results
\* are empty.
C16_AddEntryThenSuccess ==
  [][/\ (storeOp'.op = "addEntry" /\ storeOp'.wrote) =>
          /\ blob'.kind = "history"
          /\ WithId(blob.entries, storeOp'.id) = {}
          /\ WithId(blob'.entries, storeOp'.id) = {Len(blob'.entries)}
          /\ blob'.entries[Len(blob'.entries)] =
               NewEntry(storeOp'.id, storeOp'.status, "idea")
          /\ \A i \in 1..(Len(blob'.entries) - 1) :
               blob'.entries[i] =
                 blob.entries[i + Len(blob.entries) + 1 - Len(blob'.entries)]
          /\ Len(blob'.entries) \in {Len(blob.entries) + 1, MAX_ENTRIES}
     /\ (/\ storeOp.op = "addEntry" /\ storeOp.wrote
         /\ storeOp'.op = "updateEntryStatus" /\ storeOp'.wrote
         /\ storeOp'.id = storeOp.id /\ storeOp'.status = "success") =>
          /\ Cardinality(WithId(blob'.entries, storeOp.id)) = 1
          /\ \A i \in WithId(blob'.entries, storeOp.id) :
               /\ blob'.entries[i].status = "success"
               /\ ~blob'.entries[i].hasResults
               /\ blob'.entries[i].results = NoResults]_vars

\* an entry added by the call before last was marked success by the last
C16_Witness ==
  /\ storeOp.op = "updateEntryStatus" /\ storeOp.wrote
  /\ storeOp.status = "success"
  /\ storeOp.id = storeNextId - 1
  /\ \E i \in WithId(blob.entries, storeOp.id) :
       /\ blob.entries[i].prompt = "idea"
       /\ blob.entries[i].status = "success"
       /\ ~blob.entries[i].hasResults

\* C17: the persisted history never holds more than MAX_ENTRIES entries and
\* holds them in creation order; an addEntry on a history of MAX_ENTRIES
\* entries drops exactly the oldest one and keeps the others and the new one.
C17_CapacityEvictsOldest ==
  [][/\ Len(blob'.entries) <= MAX_ENTRIES
     /\ \A i \in 1..(Len(blob'.entries) - 1) :
          blob'.entries[i].id < blob'.entries[i + 1].id
     /\ (/\ storeOp'.op = "addEntry" /\ storeOp'.wrote
         /\ Len(blob.entries) = MAX_ENTRIES) =>
          /\ Len(blob'.entries) = MAX_ENTRIES
          /\ SubSeq(blob'.entries, 1, MAX_ENTRIES - 1) = Tail(blob.entries)
          /\ blob'.entries[MAX_ENTRIES].id = storeOp'.id]_vars

\* entry 1 of a full history was evicted by the addEntry made last
C17_Witness ==
  /\ storeOp.op = "addEntry" /\ storeOp.wrote
  /\ Len(blob.entries) = MAX_ENTRIES
  /\ blob.entries[1].id = 2
  /\ blob.entries[MAX_ENTRIES].id = MAX_ENTRIES + 1

\* C18: an updateEntryResults that is written sets the keys of the partial
\* result, keeps the other keys of the bag, and merges the uiState of the
\* partial result into the stored uiState key by key: a uiState key the
\* partial result does not supply keeps its stored value.
C18_NestedUIStateMerge ==
  [][(storeOp'.op = "updateEntryResults" /\ storeOp'.wrote) =>
       \A i \in WithId(blob.entries, storeOp'.id) :
         \A j \in WithId(blob'.entries, storeOp'.id) :
           LET p == Partials[storeOp'.partial] IN
           /\ \A k \in DOMAIN NoResults \ {"uiState"} :
                blob'.entries[j].results[k] =
                  IF k \in DOMAIN p THEN p[k]
                  ELSE blob.entries[i].results[k]
           /\ \A u \in DOMAIN NoUIState :
                blob'.entries[j].results.uiState[u] =
                  IF "uiState" \in DOMAIN p /\ p.uiState[u] # NoUIState[u]
                  THEN p.uiState[u]
                  ELSE blob.entries[i].results.uiState[u]]_vars

\* C19: updateEntryStatus and updateEntryResults with an id no entry has do
\* not throw and leave the persisted item, its entries and its lastUpdated,
\* as it was.
C19_UnknownIdIsNoOp ==
  [][(/\ storeOp'.op \in {"updateEntryStatus", "updateEntryResults"}
      /\ WithId(blob.entries, storeOp'.id) = {}) =>
       /\ blob' = blob
       /\ ~storeOp'.threw
       /\ ~storeOp'.wrote]_vars

\* an update under the id of an evicted or deleted entry, or under an id
\* never given out, on a history that has entries
C19_Witness ==
  /\ storeOp.op \in {"updateEntryStatus", "updateEntryResults"}
  /\ WithId(blob.entries, storeOp.id) = {}
  /\ blob.kind = "history"
  /\ Len(blob.entries) > 0
  /\ ~storeOp.wrote

\* C20: when the item is missing or is not a blob of the shape
\* {entries: array, lastUpdated}, every call loads an empty store and none
\* throws.
C20_CorruptBlobLoadsEmpty ==
  [][blob.kind # "history" =>
       /\ ~storeOp'.threw
       /\ storeOp'.loadedArray
       /\ storeOp'.loadedCount = 0]_vars

\* a call of CacheManager, or a page reload, is made in the step
CacheStep == cacheCalls' # cacheCalls
\* a call of HistoryManager is made in the step
StoreStep == now' # now
\* the snapshot of the item is within its lifetime
Fresh(c, t) == c.kind = "snapshot" /\ t - c.snap.lastUpdated <= CACHE_EXPIRY

\* C21 as stated: a call of HistoryManager or CacheManager whose write
\* fails does not throw and leaves the persisted item as it was.
C21_FailedWriteLeavesItem ==
  [][/\ (StoreStep /\ storeOp'.failed) => (blob' = blob /\ ~storeOp'.threw)
     /\ (CacheStep /\ cacheOp'.op = "saveState" /\ ~cacheOp'.wrote) =>
          (cache' = cache /\ ~cacheOp'.threw)]_vars

\* C21: a call of HistoryManager or CacheManager whose write fails does not
\* throw; it leaves the persisted item as it was, except that a snapshot of
\* the cache that has expired is removed by the load saveState begins with.
C21_FailedWriteLeavesUnexpiredItem ==
  [][/\ (StoreStep /\ storeOp'.failed) => (blob' = blob /\ ~storeOp'.threw)
     /\ (CacheStep /\ cacheOp'.op = "saveState" /\ ~cacheOp'.wrote) =>
          /\ ~cacheOp'.threw
          /\ (cache.kind = "missing" \/ Fresh(cache, clock)) => cache' = cache
          /\ ~(cache.kind = "missing" \/ Fresh(cache, clock)) =>
               cache'.kind = "missing"]_vars

\* a failed write of the history and a failed saveState over a live snapshot
C21_Witness ==
  /\ storeOp.failed
  /\ blob.kind = "history"
  /\ cacheOp.op = "saveState" /\ ~cacheOp.wrote
  /\ cacheOp.before = "snapshot" /\ ~cacheOp.expired
  /\ cache.kind = "snapshot"

\* C22: a saveState that is written persists the current snapshot, or the
\* default one when nothing is persisted or the persisted one has expired,
\* overridden by the fields of the partial state, with lastUpdated the
\* current time; a loadState that follows it within the expiry time returns
\* exactly the persisted snapshot.
C22_SaveMergesThenLoadReturns ==
  [][/\ (CacheStep /\ cacheOp'.op = "saveState" /\ cacheOp'.wrote) =>
          /\ cache'.kind = "snapshot"
          /\ cache'.snap.lastUpdated = clock
          /\ \A k \in DOMAIN getDefaultState(0) \ {"lastUpdated"} :
               cache'.snap[k] =
                 IF k \in DOMAIN CachePartials[cacheOp'.partial]
                 THEN CachePartials[cacheOp'.partial][k]
                 ELSE IF Fresh(cache, clock) THEN cache.snap[k]
                 ELSE getDefaultState(clock)[k]
     /\ (/\ CacheStep /\ cacheOp'.op = "loadState"
         /\ cacheOp.op = "saveState" /\ cacheOp.wrote
         /\ Fresh(cache, clock)) =>
          cacheOp'.returned = cache.snap]_vars

\* a load returned the merge of two saves
C22_Witness ==
  /\ cacheOp.op = "loadState"
  /\ cacheOp.returned.uiInput = "idea"
  /\ cacheOp.returned.analysisData = 1
  /\ cacheOp.returned = cache.snap

\* C23: loadState returns the persisted snapshot while now - lastUpdated is
\* at most the expiry time and leaves it in place; once it is more, the load
\* removes the item and returns the default snapshot, and with the item
\* missing every load returns the default snapshot.
C23_ExpiryIsSticky ==
  [][(CacheStep /\ cacheOp'.op = "loadState") =>
       IF Fresh(cache, clock)
       THEN cacheOp'.returned = cache.snap /\ cache' = cache
       ELSE /\ cacheOp'.returned = getDefaultState(clock)
            /\ cache'.kind = "missing"]_vars

\* the load made last found an expired snapshot and removed it
C23_Witness ==
  /\ cacheOp.op = "loadState"
  /\ cacheOp.before = "snapshot" /\ cacheOp.expired
  /\ cache.kind = "missing"
  /\ cacheOp.returned = getDefaultState(clock)

ArrayFields(d) ==
  <<d.target_segments, d.user_insights_data, d.success_metrics,
    d.scope.in_scope, d.scope.out_scope, d.scope.constraints>>

\* C25: normalizing a record that was normalized already changes nothing:
\* whatever record loadFromObject was handed (fields absent, null, or bare
\* scalars in place of arrays), a further normalizeData leaves the record
\* held as it is.
C25_NormalizeIsIdempotent ==
  [][paOp'.op = "normalizeData" => pa' = pa]_vars

\* a record loaded with a scalar for an array and without its optional
\* strings has been normalized a second time
C25_Witness ==
  /\ paOp.op = "normalizeData" /\ ~paOp.threw
  /\ paOp.input = pa
  /\ pa.kind = "object"
  /\ pa.target_segments = Arr(<<"text">>)
  /\ pa.scope.in_scope = Arr(<<"text">>)
  /\ pa.business_goal = Scalar("empty string")

\* C26 as stated: after an analysis record is normalized every declared
\* array field is an array and every optional string is "" rather than
\* absent; an absent array field has become [], and an array field handed
\* in as a bare scalar v has become [v], for every scalar v.
C26_ScalarBecomesOneElementArray ==
  (paOp.op = "loadFromObject" /\ ~paOp.threw /\ paOp.input.kind = "object")
    => /\ \A f \in 1..6 :
            /\ IsArray(ArrayFields(pa)[f])
            /\ ArrayFields(paOp.input)[f].kind = "absent"
                 => ArrayFields(pa)[f] = Arr(<<>>)
            /\ ArrayFields(paOp.input)[f].kind = "scalar"
                 => ArrayFields(pa)[f] = Arr(ArrayFields(paOp.input)[f].items)
       /\ pa.business_goal.kind = "scalar"
       /\ pa.key_assumptions_open_questions.kind = "scalar"

\* how the claim reads "first non-null source"
NonNull(v) == v.kind \notin {"absent", "null"}
ResolvesAlias(result, first, second) ==
  /\ NonNull(first) => result = first
  /\ (~NonNull(first) /\ NonNull(second)) => result = second

C28_LoadNeverThrows ==
  saOp.op = "loadFromObject" => ~saOp.threw

\* C29 as stated: an accessor called on a parser that holds no record
\* signals an error in place of returning an empty or default value.
C29_AccessorBeforeLoadThrows ==
  (/\ asmtOp.op \in {"getAnalysis", "getScoreRanking", "getBestCategory",
                     "getWorstCategory"}
   /\ ~asmt.loaded)
    => asmtOp.threw

\* the place of a category in the record held
Place(category) ==
  CHOOSE i \in 1..Len(asmt.scores) : asmt.scores[i].category = category
\* e comes before f in a ranking: a higher score, or the same score and an
\* earlier place in the record
RanksBefore(e, f) ==
  \/ e.score > f.score
  \/ e.score = f.score /\ Place(e.category) < Place(f.category)

\* C30: on a loaded assessment record the ranking of getScoreRanking and of
\* getAnalysis lists the four categories by score descending, categories
\* with equal scores in the order the record has them; getBestCategory is
\* the first of that ranking and getWorstCategory the last.
C30_RankingIsStableDescending ==
  /\ (asmtOp.op \in {"getScoreRanking", "getAnalysis"} /\ asmt.loaded)
       => /\ Len(asmtOp.result) = 4
          /\ {asmtOp.result[i] : i \in 1..4}
               = {asmt.scores[i] : i \in 1..4}
          /\ \A i \in 1..4 : \A j \in (i + 1)..4 :
               RanksBefore(asmtOp.result[i], asmtOp.result[j])
  /\ (asmtOp.op = "getBestCategory" /\ asmt.loaded)
       => /\ Len(asmtOp.result) = 1
          /\ \E i \in 1..4 : asmtOp.result[1] = asmt.scores[i]
          /\ \A i \in 1..4 :
               \/ asmt.scores[i] = asmtOp.result[1]
               \/ RanksBefore(asmtOp.result[1], asmt.scores[i])
  /\ (asmtOp.op = "getWorstCategory" /\ asmt.loaded)
       => /\ Len(asmtOp.result) = 1
          /\ \E i \in 1..4 : asmtOp.result[1] = asmt.scores[i]
          /\ \A i \in 1..4 :
               \/ asmt.scores[i] = asmtOp.result[1]
               \/ RanksBefore(asmt.scores[i], asmtOp.result[1])

\* a ranking was returned for a record whose two best categories have the
\* same score and whose keys do not come in the declared order
C30_Witness ==
  /\ asmtOp.op = "getScoreRanking" /\ asmt.loaded
  /\ asmt.scores[1].category = "risk_awareness"
  /\ asmtOp.result[1].score = asmtOp.result[2].score
  /\ asmtOp.result[2].score > asmtOp.result[3].score
  /\ asmtOp.result[3].score > asmtOp.result[4].score

\* the breakpoints of the grades as the specification lists them, highest
\* first: the least average that earns the grade
Breakpoints ==
  <<[atLeast |-> 90, grade |-> "A+"], [atLeast |-> 85, grade |-> "A"],
    [atLeast |-> 80, grade |-> "A-"], [atLeast |-> 75, grade |-> "B+"],
    [atLeast |-> 70, grade |-> "B"], [atLeast |-> 65, grade |-> "B-"],
    [atLeast |-> 60, grade |-> "C+"], [atLeast |-> 55, grade |-> "C"],
    [atLeast |-> 50, grade |-> "C-"], [atLeast |-> 45, grade |-> "D+"],
    [atLeast |-> 40, grade |-> "D"], [atLeast |-> 35, grade |-> "D-"]>>
\* the sum of the four scores of the record held
HeldTotal ==
  asmt.scores[1].score + asmt.scores[2].score + asmt.scores[3].score
    + asmt.scores[4].score

\* C31: on a loaded assessment record getAnalysis reports the grade of the
\* highest breakpoint that the average of the four scores reaches (the
\* breakpoints are inclusive), and F when it reaches none.
C31_GradeFollowsBreakpoints ==
  (asmtOp.op = "getAnalysis" /\ asmt.loaded)
    => /\ asmtOp.totalScore = HeldTotal
       /\ \A k \in 1..Len(Breakpoints) :
            (/\ HeldTotal >= 4 * Breakpoints[k].atLeast
             /\ \A j \in 1..(k - 1) : HeldTotal < 4 * Breakpoints[j].atLeast)
              => asmtOp.grade = Breakpoints[k].grade
       /\ (\A k \in 1..Len(Breakpoints) :
             HeldTotal < 4 * Breakpoints[k].atLeast)
            => asmtOp.grade = "F"

\* an analysis was made of a record whose average is exactly 85
C31_Witness ==
  /\ asmtOp.op = "getAnalysis" /\ asmt.loaded
  /\ HeldTotal = 4 * 85
  /\ asmtOp.grade = "A"

\* C32 as stated: the selected_approach that generateUIFromAnalysis sends
\* for the first approach of a response has the key_benefits and the
\* implementation_risk_analysis that generateUIFromSolution sends for the
\* same approach object.
C32_BothPathsSendSamePayload ==
  (saOp.op = "generateUIFromAnalysis" /\ saOp.error = "")
    => saOp.payload
         = selectedApproachFromSolution(saOp.input.solution_analysis.items[1])

\* C33 as stated: a render or a call of an accessor leaves the record held
\* by the solution parser as it is, the order of solution_analysis and of
\* the evaluation table included.
C33_ReadingKeepsOrder ==
  [][saOp'.op \in {"render", "isLoaded", "getProblemStatement",
                   "getEvaluationTable", "getApproachRisks",
                   "getApproachPros"}
       => sa'.data = sa.data]_vars

\* an update of entry a and an update of another entry b, made one after
\* the other on the item, leave the same item in either order
UpdatesCommute(a, b) ==
  \A status \in {"success", "error"} : \A p \in 1..Len(Partials) :
    ResultsUpdated(StatusUpdated(blob, a, status, Absent, now, TRUE),
                   b, Partials[p], now, TRUE)
      = StatusUpdated(ResultsUpdated(blob, b, Partials[p], now, TRUE),
                      a, status, Absent, now, TRUE)

\* C34: every call of updateEntryStatus and updateEntryResults is one whole
\* read-merge-write of the item: it leaves every entry but its own as it
\* was, a call that is written changes its own entry as asked, and updates
\* of two different entries give the same item in either order.
C34_UpdatesOfOtherEntriesKept ==
  [][(/\ StoreStep
      /\ storeOp'.op \in {"updateEntryStatus", "updateEntryResults"}
      /\ blob.kind = "history") =>
       /\ Len(blob'.entries) = Len(blob.entries)
       /\ \A i \in 1..Len(blob.entries) :
            /\ blob.entries[i].id # storeOp'.id
                 => blob'.entries[i] = blob.entries[i]
            /\ (/\ blob.entries[i].id = storeOp'.id
                /\ storeOp'.wrote
                /\ storeOp'.op = "updateEntryStatus")
                 => /\ blob'.entries[i].status = storeOp'.status
                    /\ blob'.entries[i].results = blob.entries[i].results
            /\ (/\ blob.entries[i].id = storeOp'.id
                /\ storeOp'.wrote
                /\ storeOp'.op = "updateEntryResults")
                 => /\ blob'.entries[i].status = blob.entries[i].status
                    /\ \A k \in DOMAIN NoResults :
                         blob'.entries[i].results[k] =
                           Supplied(Partials[storeOp'.partial],
                                    blob.entries[i].results, k)
       /\ UpdatesCommute(1, storeNextId - 1)]_vars

\* entry 1 was marked failed, and the call made last stored results in the
\* newest entry, which is another one
C34_Witness ==
  /\ storeOp.op = "updateEntryResults" /\ storeOp.wrote
  /\ storeOp.id = storeNextId - 1
  /\ storeOp.id # 1
  /\ blob.entries[1].id = 1
  /\ blob.entries[1].status = "error"
  /\ EarlierEntry(1).status = "success"
  /\ blob.entries[Len(blob.entries)].id = storeOp.id
  /\ blob.entries[Len(blob.entries)].hasResults

\* a successful ui entry whose results hold all three records of its run
StoredUIRun(i) ==
  /\ history[i].type = "ui"
  /\ history[i].status = "success"
  /\ history[i].hasResults
  /\ history[i].results.analysisData # 0
  /\ history[i].results.solutionArchitectData # 0
  /\ history[i].results.uiResults.content # 0

\* C35: selecting the history entry of a successful UI run restores what the
\* run stored: afterwards the analysis reader holds the entry's analysis
\* record, the solution parser holds the solution record of that run, and
\* the UI generator shows the generated UI saved in the entry's results.
C35_SelectRestoresStoredRecords ==
  [][\A i \in 1..Len(history) :
       (StoredUIRun(i) /\ handleHistorySelect(i)) =>
         /\ reader' = history[i].results.analysisData
         /\ parser'.loaded /\ parser'.origin = history[i].id
         /\ ug'.content = history[i].results.uiResults.content]_vars

\* the pipeline functions this step started
StartedNow == {t \in tasks' : t.tid >= nextTask}

\* C36: the SolutionRecord a UI is generated from belongs to the current
\* run: whenever generateUIFromSolution starts, also after the user went back
\* to the input screen or started a new analysis run, the record held by the
\* shared solution parser was loaded by the run whose entry is current.
C36_SolutionRecordOfCurrentRun ==
  [][\A t \in StartedNow :
       t.fn = "generateUIFromSolution" =>
         parser'.loaded /\ parser'.origin = t.hid]_vars

\* C37: results are written only to the entry of the run that produced
\* them: when handleAnalysisGenerate resumes with a valid analysis, also
\* after a history entry was selected while the call was in flight, the
\* record it loads into the reader and the current history id name the same
\* entry (the one later review and UI results are stored under).
C37_LoadedRecordIsCurrentEntry ==
  [][\A t \in tasks : \A env \in Returned(t) :
       (/\ env.success
        /\ env.data.valid
        /\ handleAnalysisGenerateResume(t, env)) =>
          reader' = currentHistoryId']_vars

\* C38: in every reachable state a history entry of kind ui whose status is
\* success holds a generated UI result in its results.
C38_SuccessfulUIEntryHoldsUI ==
  \A i \in 1..Len(history) :
    (history[i].type = "ui" /\ history[i].status = "success") =>
      history[i].results.uiResults.content # 0

\* C39: a failed load exposes no invalid or mismatched record: after a
\* loadFromString that returned false, either isLoaded() is false, or the
\* record held before the call and its raw JSON are both exactly as they were.
C39_FailedLoadExposesNothing ==
  [][(asmtOp'.op = "loadFromString" /\ ~asmtOp'.returned) =>
       \/ ~AssessmentIsLoaded(asmt')
       \/ asmt' = asmt]_vars

\* validate() follows loadFromObject(x) directly
ValidatedAfterLoad == paOp.op = "loadFromObject" /\ paOp'.op = "validate"
IsValid(op) == op.result = Arr(<<>>)

\* C40 as stated: validate() called after loadFromObject(x) reports
\* isValid = false exactly when x is absent (null or undefined).
C40_InvalidIffAbsent ==
  [][ValidatedAfterLoad =>
       (~IsValid(paOp') <=> paOp.input.kind = "null")]_vars

\* C40: validate() called after loadFromObject(x) reports isValid = false
\* exactly when x is falsy (absent, or 0, '' or false) or the load threw
\* half-way (x or one of its two nested objects is a bare truthy scalar):
\* of every object the load returned for, each field that validate checks
\* has been repaired.
C40_InvalidIffNoDataOrThrown ==
  [][ValidatedAfterLoad =>
       (~IsValid(paOp') <=> (NoData(paOp.input) \/ paOp.threw))]_vars

\* validate() accepted an object whose target_segments was a bare string
\* and whose scope was missing
C40_Witness ==
  /\ paOp.op = "validate"
  /\ IsValid(paOp)
  /\ pa.kind = "object"
  /\ pa.target_segments = Arr(<<"text">>)
  /\ pa.scope = Scope("object", Arr(<<>>), Arr(<<>>), Arr(<<>>))

=============================================================================
